---- MODULE Spec2Model ----
(***************************************************************************)
(* Examination seating: the seat allocator of backend/seating_algorithm.py *)
(* (SeatingAlgorithm), the generator of app.py, and the invigilator        *)
(* assignment handlers of app.py, over the tables of backend/database.py.  *)
(*                                                                         *)
(* A session is the pair (exam_date, session_time).  Every statement that  *)
(* DatabaseManager.execute_query runs is its own committed transaction, so *)
(* one generate call is a sequence of steps: one step per statement that   *)
(* reads or writes seating_arrangements.                                   *)
(***************************************************************************)
EXTENDS Integers, Sequences, FiniteSets, TLC

VARIABLES
    students,               \* table students, in rowid order
    student_subjects,       \* table student_subjects
    exams,                  \* table exams, in rowid order
    rooms,                  \* table rooms, in rowid order
    seating_arrangements,   \* table seating_arrangements
    run,                    \* per request: the locals of generate_seating_arrangement
    web,                    \* the last request served by app.py's generator
    invigilators,           \* table invigilators
    invigilator_assignments, \* table invigilator_assignments
    flash,                  \* the response of the last invigilator or room handler
    requests,               \* per request: the locals of manual_assign_invigilator
    audit,                  \* the last answer of validate_arrangement
    seat_label,             \* the last answer of generate_seat_number
    policy_check            \* the last answers of the three conflict checks

vars == <<students, student_subjects, exams, rooms, seating_arrangements, run,
          web, invigilators, invigilator_assignments, flash, requests, audit, seat_label,
          policy_check>>

(***************************************************************************)
(* Bounds of the model.                                                    *)
(***************************************************************************)
WideCols == 3       \* the columns of the one-row rooms
MaxAssignments == 2 \* the rows invigilator_assignments may come to hold

Procs == {1, 2}
SeqProcs == {1}

None == 0

(***************************************************************************)
(* Sessions: (exam_date, session_time).                                    *)
(***************************************************************************)
S1 == [exam_date |-> "d1", session_time |-> "09:00"]
S2 == [exam_date |-> "d1", session_time |-> "14:00"]
S3 == [exam_date |-> "d1", session_time |-> "10:00"]
Sessions == {S1, S2}

Policies == {"strict", "moderate", "relaxed"}
ArrangementTypes == {"mixed", "department_wise", "random", "alphabetical"}
Utilizations == {"optimal", "balanced", "minimal"}

(***************************************************************************)
(* Sequence helpers.                                                       *)
(***************************************************************************)
Range(s) == {s[i] : i \in DOMAIN s}

Perms(s) ==
    LET n == Len(s)
        bij == {f \in [1..n -> 1..n] : \A i, j \in 1..n : i # j => f[i] # f[j]}
    IN  {[i \in 1..n |-> s[f[i]]] : f \in bij}

RECURSIVE SelectSeq2(_, _)
\* the subsequence of s whose elements lie in the set keep
SelectSeq2(s, keep) ==
    IF s = <<>> THEN <<>>
    ELSE IF Head(s) \in keep THEN <<Head(s)>> \o SelectSeq2(Tail(s), keep)
    ELSE SelectSeq2(Tail(s), keep)

RECURSIVE Sum(_, _)
Sum(f, S) ==
    IF S = {} THEN 0
    ELSE LET x == CHOOSE y \in S : TRUE IN f[x] + Sum(f, S \ {x})

(***************************************************************************)
(* The conflict policies.  A grid is [rows, cols, cells]: cells maps the   *)
(* 0-based (row, col) to None or to the 1-based position of the seated     *)
(* candidate in the visiting order cands.                                  *)
(***************************************************************************)
Directions8 == {<<-1, 0>>, <<1, 0>>, <<0, -1>>, <<0, 1>>,
                <<-1, -1>>, <<-1, 1>>, <<1, -1>>, <<1, 1>>}
Directions4 == {<<-1, 0>>, <<1, 0>>, <<0, -1>>, <<0, 1>>}

\* the occupied in-grid cells among the given offsets of (row, col)
Adjacent(grid, row, col, directions) ==
    {<<row + d[1], col + d[2]>> : d \in directions} \cap
    {rc \in DOMAIN grid.cells : grid.cells[rc] # None}

StrictNoDiagonal(student, grid, cands, row, col) ==
    \E rc \in Adjacent(grid, row, col, Directions4) :
        \/ cands[grid.cells[rc]].department = student.department
        \/ cands[grid.cells[rc]].subject_code = student.subject_code

StrictSubjectOnly(student, grid, cands, row, col) ==
    \E rc \in Adjacent(grid, row, col, Directions8) :
        cands[grid.cells[rc]].subject_code = student.subject_code

strict_conflict_check(student, grid, cands, row, col) ==
    \E rc \in Adjacent(grid, row, col, Directions8) :
        \/ cands[grid.cells[rc]].department = student.department
        \/ cands[grid.cells[rc]].subject_code = student.subject_code

ModerateAllowTwo(student, grid, cands, row, col) ==
    Cardinality({rc \in Adjacent(grid, row, col, Directions4) :
        \/ cands[grid.cells[rc]].department = student.department
        \/ cands[grid.cells[rc]].subject_code = student.subject_code}) > 2

ModerateCountsNeighbours(student, grid, cands, row, col) ==
    Cardinality(Adjacent(grid, row, col, Directions4)) > 1

moderate_conflict_check(student, grid, cands, row, col) ==
    Cardinality({rc \in Adjacent(grid, row, col, Directions4) :
        \/ cands[grid.cells[rc]].department = student.department
        \/ cands[grid.cells[rc]].subject_code = student.subject_code}) > 1

RelaxedSameRowOnly(student, grid, cands, row, col) ==
    \E rc \in Adjacent(grid, row, col, {<<0, -1>>, <<0, 1>>}) :
        cands[grid.cells[rc]].subject_code = student.subject_code

relaxed_conflict_check(student, grid, cands, row, col) ==
    \E rc \in Adjacent(grid, row, col, Directions4) :
        cands[grid.cells[rc]].subject_code = student.subject_code

\* self.conflict_strategies.get(conflict_avoidance, self._strict_conflict_check)
conflict_strategy(policy, student, grid, cands, row, col) ==
    CASE policy = "moderate" -> moderate_conflict_check(student, grid, cands, row, col)
      [] policy = "relaxed"  -> relaxed_conflict_check(student, grid, cands, row, col)
      [] OTHER               -> strict_conflict_check(student, grid, cands, row, col)

(***************************************************************************)
(* The queries of SeatingAlgorithm.                                        *)
(***************************************************************************)
Subjects == {"sub1", "sub2", "sub3"}    \* table subjects (subject_code), never written here

SessionOf(r) == [exam_date |-> r.exam_date, session_time |-> r.session_time]

\* SELECT e.* FROM exams e JOIN subjects s ... WHERE exam_date = ? AND start_time = ? AND is_active = 1
get_exams_for_session(session) ==
    SelectSeq2(exams, {e \in Range(exams) :
        /\ e.subject_code \in Subjects
        /\ e.exam_date = session.exam_date
        /\ e.start_time = session.session_time
        /\ e.is_active})

\* the rows of one exam: students JOIN student_subjects WHERE subject_code = ? (both active)
exam_students(subject_code) ==
    LET enrolled == SelectSeq2(students, {s \in Range(students) :
            /\ s.is_active
            /\ \E ss \in student_subjects :
                /\ ss.student_id = s.student_id
                /\ ss.subject_code = subject_code
                /\ ss.is_active})
    IN  [i \in 1..Len(enrolled) |->
            [student_id   |-> enrolled[i].student_id,
             name         |-> enrolled[i].name,
             department   |-> enrolled[i].department,
             subject_code |-> subject_code]]

RECURSIVE get_students_for_exams(_)
get_students_for_exams(exam_rows) ==
    IF exam_rows = <<>> THEN <<>>
    ELSE exam_students(Head(exam_rows).subject_code) \o get_students_for_exams(Tail(exam_rows))

MinimalLimit == 5

RoomsSmallestFirst(utilization_strategy) ==
    LET active == SelectSeq2(rooms, {r \in Range(rooms) : r.is_active})
    IN  {p \in Perms(active) : \A i, j \in 1..Len(p) : i < j => p[i].capacity <= p[j].capacity}

\* SELECT * FROM rooms WHERE is_active = 1 ORDER BY capacity ...: every order the
\* ORDER BY admits (rooms of equal capacity come in either order)
rooms_query(utilization_strategy) ==
    LET active == SelectSeq2(rooms, {r \in Range(rooms) : r.is_active})
        ordered == {p \in Perms(active) : \A i, j \in 1..Len(p) : i < j =>
                        IF utilization_strategy = "balanced"
                        THEN p[i].capacity <= p[j].capacity
                        ELSE p[i].capacity >= p[j].capacity}
    IN  IF utilization_strategy \in {"optimal", "balanced"}
        THEN ordered
        ELSE {SubSeq(p, 1, IF Len(p) < MinimalLimit THEN Len(p) ELSE MinimalLimit) : p \in ordered}

AvailableIgnoringSession(room_id, session) ==
    {r \in seating_arrangements : r.room_id = room_id /\ r.is_active} = {}

\* SELECT COUNT(*) FROM seating_arrangements WHERE room_id = ? AND exam_date = ?
\*   AND session_time = ? AND is_active = 1  -- result[0] == 0
is_room_available(room_id, session) ==
    {r \in seating_arrangements :
        r.room_id = room_id /\ SessionOf(r) = session /\ r.is_active} = {}

(***************************************************************************)
(* The arrangement strategies: the visiting orders each may return.        *)
(***************************************************************************)
mixed_arrangement(studs) == Perms(studs)

\* groups in order of first appearance, shuffled within each group
department_wise_arrangement(studs) ==
    LET depts == {studs[i].department : i \in DOMAIN studs}
        first(d) == CHOOSE i \in DOMAIN studs :
                        /\ studs[i].department = d
                        /\ \A j \in DOMAIN studs : studs[j].department = d => i <= j
    IN  {p \in Perms(studs) : \A i, j \in DOMAIN p :
            (i < j /\ p[i].department # p[j].department)
                => first(p[i].department) < first(p[j].department)}

\* sorted(students, key=name): stable, so equal names keep their order
alphabetical_arrangement(studs) ==
    LET n == Len(studs)
        before(i, j) == \/ studs[i].name < studs[j].name
                        \/ studs[i].name = studs[j].name /\ i < j
        rank(i) == 1 + Cardinality({j \in 1..n : before(j, i)})
    IN  {[k \in 1..n |-> studs[CHOOSE i \in 1..n : rank(i) = k]]}

\* self.arrangement_strategies.get(arrangement_type, self._mixed_arrangement)
arrangement_strategy(arrangement_type, studs) ==
    CASE arrangement_type = "department_wise" -> department_wise_arrangement(studs)
      [] arrangement_type = "alphabetical"    -> alphabetical_arrangement(studs)
      [] OTHER                                -> mixed_arrangement(studs)

(***************************************************************************)
(* The seat scan of _allocate_seats for one student.                       *)
(***************************************************************************)
EmptyGrid(room) ==
    [rows  |-> room.rows,
     cols  |-> room.cols,
     cells |-> [rc \in (0..(room.rows - 1)) \X (0..(room.cols - 1)) |-> None]]

RowMajor(grid, rc) == rc[1] * grid.cols + rc[2]

\* the empty seats of the grid that the policy refuses for the student
Refused(policy, student, grid, cands) ==
    {rc \in DOMAIN grid.cells :
        /\ grid.cells[rc] = None
        /\ conflict_strategy(policy, student, grid, cands, rc[1], rc[2])}

\* the empty seats of the grid that the policy permits for the student
Permitted(policy, student, grid, cands) ==
    {rc \in DOMAIN grid.cells :
        /\ grid.cells[rc] = None
        /\ ~conflict_strategy(policy, student, grid, cands, rc[1], rc[2])}

LastPermitted(policy, student, grid, cands) ==
    LET ok == Permitted(policy, student, grid, cands)
    IN  CHOOSE rc \in ok : \A o \in ok : RowMajor(grid, o) <= RowMajor(grid, rc)

AnyEmpty(policy, student, grid, cands) ==
    LET ok == {rc \in DOMAIN grid.cells : grid.cells[rc] = None}
    IN  CHOOSE rc \in ok : \A o \in ok : RowMajor(grid, rc) <= RowMajor(grid, o)

\* the first permitted seat in row-major order (for row ... for col ...)
first_seat(policy, student, grid, cands) ==
    LET ok == Permitted(policy, student, grid, cands)
    IN  CHOOSE rc \in ok : \A o \in ok : RowMajor(grid, rc) <= RowMajor(grid, o)

RECURSIVE scan_rooms(_, _, _, _, _, _)
\* for room_id, room_data in room_grids.items(): the room and seat found for the
\* student from room k on, and the number of refused seats passed on the way
scan_rooms(policy, student, room_list, room_grids, cands, k) ==
    IF k > Len(room_list)
    THEN [found |-> FALSE, room_id |-> "", seat |-> <<0, 0>>, conflicts |-> 0]
    ELSE LET room_id == room_list[k].room_id
             grid == room_grids[room_id]
         IN  IF Permitted(policy, student, grid, cands) # {}
             THEN LET rc == first_seat(policy, student, grid, cands)
                  IN  [found |-> TRUE, room_id |-> room_id, seat |-> rc,
                       conflicts |-> Cardinality({o \in Refused(policy, student, grid, cands) :
                                        RowMajor(grid, o) < RowMajor(grid, rc)})]
             ELSE LET rest == scan_rooms(policy, student, room_list, room_grids, cands, k + 1)
                  IN  [rest EXCEPT !.conflicts =
                        @ + Cardinality(Refused(policy, student, grid, cands))]

(***************************************************************************)
(* The state after construction: the tables an administrator has filled,   *)
(* no seating arrangement stored, no request running.                      *)
(***************************************************************************)
Student(id, name, dept) ==
    [student_id |-> id, name |-> name, department |-> dept, is_active |-> TRUE]

Enrol(id, subject) == [student_id |-> id, subject_code |-> subject, is_active |-> TRUE]

Exam(subject, session, end) ==
    [subject_code |-> subject, exam_date |-> session.exam_date,
     start_time |-> session.session_time, end_time |-> end, is_active |-> TRUE]

Room(id, nrows, ncols) ==
    [room_id |-> id, name |-> <<"Hall", id>>, rows |-> nrows, cols |-> ncols,
     capacity |-> nrows * ncols, is_active |-> TRUE]

\* The stored data the requests run over.  Names are compared only for order:
\* a name is its rank in the alphabet.
Scenarios ==
    {\* one department, one subject, one room
     [students |-> <<Student("s1", 2, "CS"), Student("s2", 1, "CS"), Student("s3", 3, "CS"),
                     Student("s4", 3, "CS")>>,
      student_subjects |-> {Enrol("s1", "sub1"), Enrol("s2", "sub1"), Enrol("s3", "sub1"),
                            Enrol("s4", "sub1")},
      exams |-> <<Exam("sub1", S1, "12:00")>>,
      rooms |-> <<Room("A", 2, 2)>>],
     \* two departments, two subjects examined together, two rooms
     [students |-> <<Student("s1", 2, "CS"), Student("s2", 1, "EE"), Student("s3", 3, "CS")>>,
      student_subjects |-> {Enrol("s1", "sub1"), Enrol("s2", "sub2"), Enrol("s3", "sub1")},
      exams |-> <<Exam("sub1", S1, "12:00"), Exam("sub2", S1, "12:00")>>,
      rooms |-> <<Room("A", 2, 2), Room("B", 1, 2)>>],
     \* two candidates, two rooms
     [students |-> <<Student("s1", 2, "CS"), Student("s2", 1, "CS")>>,
      student_subjects |-> {Enrol("s1", "sub1"), Enrol("s2", "sub1")},
      exams |-> <<Exam("sub1", S1, "12:00")>>,
      rooms |-> <<Room("A", 2, 2), Room("B", 1, WideCols)>>],
     \* a student enrolled in two subjects examined in the same session
     [students |-> <<Student("s1", 2, "CS")>>,
      student_subjects |-> {Enrol("s1", "sub1"), Enrol("s1", "sub2")},
      exams |-> <<Exam("sub1", S1, "12:00"), Exam("sub2", S1, "12:00")>>,
      rooms |-> <<Room("B", 1, WideCols), Room("C", 1, WideCols)>>],
     \* two sessions over the same rooms
     [students |-> <<Student("s1", 2, "CS"), Student("s2", 1, "EE")>>,
      student_subjects |-> {Enrol("s1", "sub1"), Enrol("s2", "sub2")},
      exams |-> <<Exam("sub1", S1, "12:00"), Exam("sub2", S2, "17:00")>>,
      rooms |-> <<Room("A", 2, 2), Room("B", 1, WideCols)>>],
     \* one department sitting two subjects together, and an examination nobody
     \* is enrolled in
     [students |-> <<Student("s1", 2, "CS"), Student("s2", 1, "CS")>>,
      student_subjects |-> {Enrol("s1", "sub1"), Enrol("s2", "sub2")},
      exams |-> <<Exam("sub1", S1, "12:00"), Exam("sub2", S1, "12:00"),
                  Exam("sub3", S2, "17:00")>>,
      rooms |-> <<Room("B", 1, WideCols)>>]}

NoResult ==
    [success |-> FALSE, message |-> "", arrangement_id |-> None,
     students_allocated |-> 0, students_failed |-> 0, rooms_used |-> 0,
     conflicts_resolved |-> 0, needed |-> 0, available |-> 0]

\* what a request remembers of the request served before it
NoPrev == [called |-> FALSE, session |-> S1, preserve_existing |-> FALSE, success |-> FALSE]

IdleRun ==
    [pc |-> "idle", session |-> S1, prev |-> NoPrev,
     conflict_avoidance |-> "strict", preserve_existing |-> FALSE,
     students |-> <<>>, all_rooms |-> <<>>, cursor |-> 1, rooms |-> <<>>,
     arranged |-> <<>>, idx |-> 1, room_grids |-> <<>>,
     allocated_count |-> 0, failed_students |-> <<>>, rooms_used |-> {},
     conflicts_resolved |-> 0, result |-> NoResult,
     before |-> {}, inserted |-> {}]

\* what app.py's generator has answered: nothing yet
NoWeb ==
    [called |-> FALSE, session |-> S1, success |-> FALSE, message |-> "",
     before |-> {}, inserted |-> {}]

\* a request of manual_assign_invigilator that has not been received
IdleRequest ==
    [pc |-> "idle", staff_id |-> "", room_id |-> "", session |-> S1, subject_code |-> ""]

\* no conflict check has been called
NoCheck ==
    [called |-> FALSE, student |-> 1, cells |-> <<>>, row |-> 0, col |-> 0,
     strict |-> FALSE, moderate |-> FALSE, relaxed |-> FALSE]

\* generate_seat_number has not been called
NoLabel ==
    [called |-> FALSE, room_id |-> <<>>, row |-> 1, col |-> 1, numbering_scheme |-> "",
     max_cols |-> 1, seat_number |-> <<>>]

\* validate_arrangement has not been called
NoAudit ==
    [called |-> FALSE, session |-> S1, conflicts |-> <<>>, read |-> {}, again |-> FALSE]

\* no handler has answered yet
NoFlash ==
    [handler |-> "", category |-> "", message |-> "", staff_id |-> "", room_id |-> "",
     session |-> S1, invigilator_name |-> <<>>, room_name |-> <<>>,
     assignments_made |-> 0, conflicts |-> {}, skipped |-> {}]

\* the tables hold one of the given data sets, and nothing is seated or assigned
Stored(scenarios) ==
    /\ \E sc \in scenarios :
        /\ students = sc.students
        /\ student_subjects = sc.student_subjects
        /\ exams = sc.exams
        /\ rooms = sc.rooms
    /\ seating_arrangements = {}
    /\ run = [p \in Procs |-> IdleRun]
    /\ web = NoWeb
    /\ invigilators = {}
    /\ invigilator_assignments = {}
    /\ flash = NoFlash
    /\ requests = [p \in Procs |-> IdleRequest]
    /\ audit = NoAudit
    /\ seat_label = NoLabel
    /\ policy_check = NoCheck

Init == Stored(Scenarios)

\* the allocator writes seating_arrangements and nothing else
Static ==
    UNCHANGED <<students, student_subjects, exams, rooms, web, invigilators,
                invigilator_assignments, flash, requests, audit, seat_label, policy_check>>

(***************************************************************************)
(* SeatingAlgorithm.generate_seating_arrangement, statement by statement.  *)
(***************************************************************************)
Failure(msg) == [NoResult EXCEPT !.message = msg]

\* uuid.uuid4(): a value no stored row and no returned result carries
fresh_arrangement_id ==
    LET used == {r.arrangement_id : r \in seating_arrangements} \cup
                {run[p].result.arrangement_id : p \in Procs}
    IN  CHOOSE n \in 1..(Cardinality(used) + 1) : n \notin used

\* The call and its first queries: exams, students and the ordered room list.
\* The two arguments that only the allocation reads are drawn when it begins.
Start(p, session, room_utilization, preserve_existing) ==
    /\ run[p].pc \in {"idle", "done"}
    /\ LET exam_rows == get_exams_for_session(session)
           studs == get_students_for_exams(exam_rows)
           fresh == [IdleRun EXCEPT
                        !.session = session,
                        !.preserve_existing = preserve_existing,
                        !.before = seating_arrangements,
                        !.prev = [called |-> run[p].pc = "done",
                                  session |-> run[p].session,
                                  preserve_existing |-> run[p].preserve_existing,
                                  success |-> run[p].result.success]]
       IN  IF exam_rows = <<>>
           THEN run' = [run EXCEPT ![p] = [fresh EXCEPT
                    !.pc = "done",
                    !.result = Failure("No exams found for the specified session")]]
           ELSE IF studs = <<>>
           THEN run' = [run EXCEPT ![p] = [fresh EXCEPT
                    !.pc = "done",
                    !.result = Failure("No students found for the exams")]]
           ELSE \E all \in rooms_query(room_utilization) :
                    run' = [run EXCEPT ![p] = [fresh EXCEPT
                        !.pc = "rooms", !.students = studs, !.all_rooms = all]]
    /\ UNCHANGED seating_arrangements
    /\ Static

\* _get_available_rooms: one _is_room_available query per room
CheckRoom(p) ==
    /\ run[p].pc = "rooms"
    /\ run[p].cursor <= Len(run[p].all_rooms)
    /\ LET room == run[p].all_rooms[run[p].cursor]
       IN  run' = [run EXCEPT ![p] = [@ EXCEPT
                !.cursor = @ + 1,
                !.rooms = IF is_room_available(room.room_id, run[p].session)
                          THEN Append(@, room) ELSE @]]
    /\ UNCHANGED seating_arrangements
    /\ Static

CapacityWithSpare(room_list) ==
    Sum([i \in DOMAIN room_list |-> room_list[i].capacity], DOMAIN room_list) + 1

\* total_capacity = sum(room['capacity'] for room in rooms)
total_capacity(room_list) ==
    Sum([i \in DOMAIN room_list |-> room_list[i].capacity], DOMAIN room_list)

\* the two checks between the room list and the clear step
CheckCapacity(p) ==
    /\ run[p].pc = "rooms"
    /\ run[p].cursor > Len(run[p].all_rooms)
    /\ run' = [run EXCEPT ![p] =
            IF run[p].rooms = <<>>
            THEN [@ EXCEPT !.pc = "done",
                           !.result = Failure("No rooms available for the session")]
            ELSE IF Len(run[p].students) > total_capacity(run[p].rooms)
            THEN [@ EXCEPT !.pc = "done",
                           !.result = [Failure("Insufficient capacity") EXCEPT
                                !.needed = Len(run[p].students),
                                !.available = total_capacity(run[p].rooms)]]
            ELSE [@ EXCEPT !.pc = IF run[p].preserve_existing THEN "arrange" ELSE "clear"]]
    /\ UNCHANGED seating_arrangements
    /\ Static

ClearAllSessions(session) ==
    {[r EXCEPT !.is_active = FALSE] : r \in seating_arrangements}

ClearNothing(session) == seating_arrangements

\* UPDATE seating_arrangements SET is_active = 0 WHERE exam_date = ? AND session_time = ?
clear_existing_arrangements(session) ==
    {IF SessionOf(r) = session THEN [r EXCEPT !.is_active = FALSE] ELSE r :
        r \in seating_arrangements}

Clear(p) ==
    /\ run[p].pc = "clear"
    /\ seating_arrangements' = clear_existing_arrangements(run[p].session)
    /\ run' = [run EXCEPT ![p] = [@ EXCEPT !.pc = "arrange"]]
    /\ Static

\* the visiting order, and the empty grids at the head of _allocate_seats
Arrange(p, arrangement_type, conflict_avoidance) ==
    /\ run[p].pc = "arrange"
    /\ \E order \in arrangement_strategy(arrangement_type, run[p].students) :
        run' = [run EXCEPT ![p] = [@ EXCEPT
            !.pc = "allocate",
            !.conflict_avoidance = conflict_avoidance,
            !.arranged = order,
            !.room_grids = [id \in {run[p].rooms[i].room_id : i \in DOMAIN run[p].rooms} |->
                EmptyGrid(CHOOSE room \in Range(run[p].rooms) : room.room_id = id)]]]
    /\ UNCHANGED seating_arrangements
    /\ Static

\* the row _insert_seating_record writes (seat_row = row + 1, seat_col = col + 1)
seating_record(student, room_id, seat_row, seat_col, session) ==
    [student_id |-> student.student_id, subject_code |-> student.subject_code,
     room_id |-> room_id, seat_row |-> seat_row, seat_col |-> seat_col,
     exam_date |-> session.exam_date, session_time |-> session.session_time,
     arrangement_id |-> None, is_active |-> TRUE]

UniqueNotEnforced(row) == FALSE

\* UNIQUE(room_id, seat_row, seat_col, exam_date, session_time): the row is refused
unique_violation(row) ==
    \E r \in seating_arrangements :
        /\ r.room_id = row.room_id
        /\ r.seat_row = row.seat_row
        /\ r.seat_col = row.seat_col
        /\ SessionOf(r) = SessionOf(row)

NotFoundForgotten(r, scan, student) ==
    [r EXCEPT !.idx = @ + 1, !.conflicts_resolved = @ + scan.conflicts]

\* the locals after an iteration that found no seat: failed_students.append(student)
seat_not_found(r, scan, student) ==
    [r EXCEPT !.idx = @ + 1,
              !.conflicts_resolved = @ + scan.conflicts,
              !.failed_students = Append(@, student)]

\* the locals once the seat is taken in the grid: grid[row][col] = student
seat_taken(r, scan) ==
    [r EXCEPT !.conflicts_resolved = @ + scan.conflicts,
              !.room_grids = [@ EXCEPT ![scan.room_id].cells[scan.seat] = r.idx]]

\* the locals after the insert of the iteration has committed
seat_allocated(r, scan, row) ==
    [seat_taken(r, scan) EXCEPT !.idx = @ + 1,
                                !.allocated_count = @ + 1,
                                !.rooms_used = @ \cup {scan.room_id},
                                !.inserted = @ \cup {row}]

\* one iteration of "for student in students" of _allocate_seats
Place(p) ==
    /\ run[p].pc = "allocate"
    /\ run[p].idx <= Len(run[p].arranged)
    /\ LET r == run[p]
           student == r.arranged[r.idx]
           scan == scan_rooms(r.conflict_avoidance, student, r.rooms, r.room_grids,
                              r.arranged, 1)
           row == seating_record(student, scan.room_id, scan.seat[1] + 1,
                                 scan.seat[2] + 1, r.session)
       IN  IF ~scan.found
           THEN /\ run' = [run EXCEPT ![p] = seat_not_found(r, scan, student)]
                /\ UNCHANGED seating_arrangements
           ELSE IF unique_violation(row)
           THEN \* sqlite3.IntegrityError, caught by generate_seating_arrangement
                /\ run' = [run EXCEPT ![p] = [seat_taken(r, scan) EXCEPT
                        !.pc = "done",
                        !.result = Failure("Error generating seating arrangement")]]
                /\ UNCHANGED seating_arrangements
           ELSE /\ seating_arrangements' = seating_arrangements \cup {row}
                /\ run' = [run EXCEPT ![p] = seat_allocated(r, scan, row)]
    /\ Static

UpdateRetiresOlder(session, arrangement_id) ==
    {IF SessionOf(r) = session /\ r.is_active
     THEN IF r.arrangement_id = None THEN [r EXCEPT !.arrangement_id = arrangement_id]
          ELSE [r EXCEPT !.is_active = FALSE]
     ELSE r : r \in seating_arrangements}

\* UPDATE seating_arrangements SET arrangement_id = ? WHERE exam_date = ? AND
\*   session_time = ? AND is_active = 1
update_arrangement_id(session, arrangement_id) ==
    {IF SessionOf(r) = session /\ r.is_active
     THEN [r EXCEPT !.arrangement_id = arrangement_id] ELSE r : r \in seating_arrangements}

\* the end of _allocate_seats, _update_arrangement_id and the returned result
Finish(p) ==
    /\ run[p].pc = "allocate"
    /\ run[p].idx > Len(run[p].arranged)
    /\ seating_arrangements' = update_arrangement_id(run[p].session, fresh_arrangement_id)
    /\ run' = [run EXCEPT ![p] = [@ EXCEPT
            !.pc = "done",
            !.inserted = {[r EXCEPT !.arrangement_id = fresh_arrangement_id] : r \in @},
            !.result = [NoResult EXCEPT
                !.success = TRUE,
                !.message = "Successfully allocated",
                !.arrangement_id = fresh_arrangement_id,
                !.students_allocated = run[p].allocated_count,
                !.students_failed = Len(run[p].failed_students),
                !.rooms_used = Cardinality(run[p].rooms_used),
                !.conflicts_resolved = run[p].conflicts_resolved]]]
    /\ Static

Step(p) ==
    \/ \E session \in Sessions, room_utilization \in Utilizations,
          preserve_existing \in BOOLEAN :
            Start(p, session, room_utilization, preserve_existing)
    \/ CheckRoom(p)
    \/ CheckCapacity(p)
    \/ Clear(p)
    \/ \E arrangement_type \in ArrangementTypes, conflict_avoidance \in Policies :
            Arrange(p, arrangement_type, conflict_avoidance)
    \/ Place(p)
    \/ Finish(p)

\* requests served one at a time
Next == \E p \in SeqProcs : Step(p)

Spec == Init /\ [][Next]_vars

(***************************************************************************)
(* Two requests served at once (two workers over the same database file):  *)
(* each makes one call, and the statements of the two calls interleave.    *)
(* Nothing in generate_seating_arrangement or execute_query takes a lock   *)
(* that spans two statements.                                              *)
(***************************************************************************)
FirstCall(p) ==
    /\ run[p].pc = "idle"
    /\ \E session \in Sessions, room_utilization \in Utilizations,
          preserve_existing \in BOOLEAN :
            Start(p, session, room_utilization, preserve_existing)

StepConc(p) ==
    \/ FirstCall(p)
    \/ CheckRoom(p)
    \/ CheckCapacity(p)
    \/ Clear(p)
    \/ \E arrangement_type \in ArrangementTypes, conflict_avoidance \in Policies :
            Arrange(p, arrangement_type, conflict_avoidance)
    \/ Place(p)
    \/ Finish(p)

NextConc == \E p \in Procs : StepConc(p)

\* the data sets of two candidates and two rooms
ConcScenarios == {sc \in Scenarios : Len(sc.students) = 2 /\ Len(sc.rooms) = 2}

InitConc == Stored(ConcScenarios)

SpecConc == InitConc /\ [][NextConc]_vars

(***************************************************************************)
(* app.py: generate_seating_arrangement, the generator behind              *)
(* /seating/generate.  It runs on one connection and commits once, after   *)
(* the last insert, so the whole call is one step.                         *)
(***************************************************************************)
\* SELECT e.* FROM exams e JOIN subjects s ... WHERE e.exam_date = ? AND e.start_time = ?
app_exams(session) ==
    SelectSeq2(exams, {e \in Range(exams) :
        /\ e.subject_code \in Subjects
        /\ e.exam_date = session.exam_date
        /\ e.start_time = session.session_time})

\* students JOIN student_subjects JOIN subjects WHERE ss.subject_code = ?
app_exam_students(subject_code) ==
    LET enrolled == SelectSeq2(students, {s \in Range(students) :
            \E ss \in student_subjects :
                /\ ss.student_id = s.student_id
                /\ ss.subject_code = subject_code
                /\ ss.subject_code \in Subjects})
    IN  [i \in 1..Len(enrolled) |->
            [student_id   |-> enrolled[i].student_id,
             name         |-> enrolled[i].name,
             department   |-> enrolled[i].department,
             subject_code |-> subject_code]]

RECURSIVE app_students(_)
app_students(exam_rows) ==
    IF exam_rows = <<>> THEN <<>>
    ELSE app_exam_students(Head(exam_rows).subject_code) \o app_students(Tail(exam_rows))

\* SELECT * FROM rooms ORDER BY capacity DESC: every order the ORDER BY admits
app_rooms ==
    {p \in Perms(rooms) : \A i, j \in 1..Len(p) : i < j => p[i].capacity >= p[j].capacity}

\* an occupied seat left, right, in front or behind holds the same subject
has_conflict(student, room_grid, cands, row, col) ==
    \E rc \in Adjacent(room_grid, row, col, Directions4) :
        cands[room_grid.cells[rc]].subject_code = student.subject_code

RECURSIVE app_scan(_, _, _, _, _)
\* for room in rooms: for row: for col: the first empty seat without a conflict
app_scan(student, room_list, room_occupancy, cands, k) ==
    IF k > Len(room_list)
    THEN [found |-> FALSE, room_id |-> "", seat |-> <<0, 0>>]
    ELSE LET room_grid == room_occupancy[room_list[k].room_id]
             ok == {rc \in DOMAIN room_grid.cells :
                        /\ room_grid.cells[rc] = None
                        /\ ~has_conflict(student, room_grid, cands, rc[1], rc[2])}
         IN  IF ok # {}
             THEN [found |-> TRUE, room_id |-> room_list[k].room_id,
                   seat |-> CHOOSE rc \in ok :
                        \A o \in ok : RowMajor(room_grid, rc) <= RowMajor(room_grid, o)]
             ELSE app_scan(student, room_list, room_occupancy, cands, k + 1)

\* the row the generator inserts: is_active and arrangement_id take their defaults
app_record(student, room_id, seat_row, seat_col, session) ==
    [student_id |-> student.student_id, subject_code |-> student.subject_code,
     room_id |-> room_id, seat_row |-> seat_row, seat_col |-> seat_col,
     exam_date |-> session.exam_date, session_time |-> session.session_time,
     arrangement_id |-> None, is_active |-> TRUE]

RECURSIVE app_allocate(_, _, _, _, _, _)
\* for student in students_list, from position i on: the rows inserted
app_allocate(cands, i, room_list, room_occupancy, session, rows) ==
    IF i > Len(cands) THEN rows
    ELSE LET scan == app_scan(cands[i], room_list, room_occupancy, cands, 1)
         IN  IF ~scan.found
             THEN app_allocate(cands, i + 1, room_list, room_occupancy, session, rows)
             ELSE app_allocate(cands, i + 1, room_list,
                    [room_occupancy EXCEPT ![scan.room_id].cells[scan.seat] = i],
                    session,
                    rows \cup {app_record(cands[i], scan.room_id, scan.seat[1] + 1,
                                          scan.seat[2] + 1, session)})

\* DELETE FROM seating_arrangements WHERE exam_date = ? AND session_time = ?
app_delete(session) == {r \in seating_arrangements : SessionOf(r) # session}

AppAnswer(session, success, message, inserted) ==
    [called |-> TRUE, session |-> session, success |-> success, message |-> message,
     before |-> seating_arrangements, inserted |-> inserted]

AppGenerate(session) ==
    /\ LET exam_rows == app_exams(session)
           studs == app_students(exam_rows)
       IN  IF exam_rows = <<>>
           THEN /\ web' = AppAnswer(session, FALSE, "No exams found", {})
                /\ UNCHANGED seating_arrangements
           ELSE IF studs = <<>>
           THEN /\ web' = AppAnswer(session, FALSE, "No students found for the selected exams", {})
                /\ UNCHANGED seating_arrangements
           ELSE IF rooms = <<>>
           THEN /\ web' = AppAnswer(session, FALSE, "No rooms available", {})
                /\ UNCHANGED seating_arrangements
           ELSE \E room_list \in app_rooms, students_list \in Perms(studs) :
                LET room_occupancy ==
                        [id \in {room_list[i].room_id : i \in DOMAIN room_list} |->
                            EmptyGrid(CHOOSE room \in Range(room_list) : room.room_id = id)]
                    rows == app_allocate(students_list, 1, room_list, room_occupancy,
                                         session, {})
                IN  /\ seating_arrangements' = app_delete(session) \cup rows
                    /\ web' = IF Cardinality(rows) < Len(studs)
                              THEN AppAnswer(session, FALSE, "Could only allocate", rows)
                              ELSE AppAnswer(session, TRUE, "Success", rows)
    /\ UNCHANGED <<students, student_subjects, exams, rooms, run, invigilators,
                   invigilator_assignments, flash, requests, audit, seat_label, policy_check>>

\* requests to /seating/generate, one after the other
NextApp == \E session \in Sessions : AppGenerate(session)

SpecApp == Init /\ [][NextApp]_vars

(***************************************************************************)
(* app.py: the invigilator handlers and the room and staff deletions.      *)
(* Each handler runs on one connection and commits once: one step each.    *)
(* Form fields arrive as the browser sends them; "" is a field left out.   *)
(***************************************************************************)
StaffIds == {"X", "Y"}
RoomIds == {"A", "B", "C"}

Invigilator(id) == [staff_id |-> id, name |-> <<"Dr", id>>, is_active |-> TRUE]

Answer(handler, category, message, staff_id, room_id, session) ==
    [handler |-> handler, category |-> category, message |-> message,
     staff_id |-> staff_id, room_id |-> room_id, session |-> session,
     invigilator_name |-> <<>>, room_name |-> <<>>,
     assignments_made |-> 0, conflicts |-> {}, skipped |-> {}]

\* id INTEGER PRIMARY KEY AUTOINCREMENT: one more than the largest id ever stored
\* (no handler removes a row)
next_assignment_id == Cardinality(invigilator_assignments) + 1

ConflictsIgnoreActiveFlag(staff_id, session) ==
    {[ia |-> x.ia, room_name |-> x.r.name, invigilator_name |-> x.i.name] :
        x \in {y \in [ia : invigilator_assignments, r : Range(rooms), i : invigilators] :
                /\ y.ia.room_id = y.r.room_id
                /\ y.ia.staff_id = y.i.staff_id
                /\ y.ia.staff_id = staff_id
                /\ SessionOf(y.ia) = session}}

\* SELECT ia.*, r.name as room_name, i.name as invigilator_name
\* FROM invigilator_assignments ia JOIN rooms r ON ia.room_id = r.room_id
\* JOIN invigilators i ON ia.staff_id = i.staff_id
\* WHERE ia.staff_id = ? AND ia.exam_date = ? AND ia.session_time = ? AND ia.is_active = 1
manual_conflicts(staff_id, session) ==
    {[ia |-> x.ia, room_name |-> x.r.name, invigilator_name |-> x.i.name] :
        x \in {y \in [ia : invigilator_assignments, r : Range(rooms), i : invigilators] :
                /\ y.ia.room_id = y.r.room_id
                /\ y.ia.staff_id = y.i.staff_id
                /\ y.ia.staff_id = staff_id
                /\ SessionOf(y.ia) = session
                /\ y.ia.is_active}}

\* the row manual_assign_invigilator inserts
assignment_record(staff_id, room_id, session, subject_code) ==
    [id |-> next_assignment_id, staff_id |-> staff_id, room_id |-> room_id,
     exam_date |-> session.exam_date, session_time |-> session.session_time,
     subject_code |-> subject_code, is_active |-> TRUE]

ManualAssign(staff_id, room_id, session, subject_code) ==
    /\ IF "" \in {staff_id, room_id, subject_code}
       THEN /\ flash' = Answer("manual_assign", "error", "All fields are required",
                               staff_id, room_id, session)
            /\ UNCHANGED invigilator_assignments
       ELSE IF manual_conflicts(staff_id, session) # {}
       THEN \* conflict = ....fetchone(): one of the rows
            /\ \E conflict \in manual_conflicts(staff_id, session) :
                    flash' = [Answer("manual_assign", "error", "is already assigned to",
                                     staff_id, room_id, session) EXCEPT
                                !.invigilator_name = conflict.invigilator_name,
                                !.room_name = conflict.room_name]
            /\ UNCHANGED invigilator_assignments
       ELSE /\ Cardinality(invigilator_assignments) < MaxAssignments
            /\ invigilator_assignments' = invigilator_assignments \cup
                    {assignment_record(staff_id, room_id, session, subject_code)}
            /\ flash' = Answer("manual_assign", "success", "Invigilator assigned successfully",
                               staff_id, room_id, session)
    /\ UNCHANGED <<students, student_subjects, exams, rooms, seating_arrangements, run,
                   web, invigilators, requests, audit, seat_label, policy_check>>

UnassignDeletes(assignment_id) ==
    {ia \in invigilator_assignments : ia.id # assignment_id}

\* UPDATE invigilator_assignments SET is_active = 0 WHERE id = ?
deactivate_assignment(assignment_id) ==
    {IF ia.id = assignment_id THEN [ia EXCEPT !.is_active = FALSE] ELSE ia :
        ia \in invigilator_assignments}

Unassign(assignment_id) ==
    /\ invigilator_assignments' = deactivate_assignment(assignment_id)
    /\ flash' = Answer("unassign", "success", "Invigilator assignment removed successfully",
                       "", "", S1)
    /\ UNCHANGED <<students, student_subjects, exams, rooms, seating_arrangements, run,
                   web, invigilators, requests, audit, seat_label, policy_check>>

\* delete_room: refused while any seating row names the room
DeleteRoom(room_id) ==
    /\ IF \E r \in seating_arrangements : r.room_id = room_id
       THEN /\ flash' = Answer("delete_room", "error", "Cannot delete room", "", room_id, S1)
            /\ UNCHANGED rooms
       ELSE /\ rooms' = SelectSeq2(rooms, {r \in Range(rooms) : r.room_id # room_id})
            /\ flash' = Answer("delete_room", "success", "Room deleted successfully",
                               "", room_id, S1)
    /\ UNCHANGED <<students, student_subjects, exams, seating_arrangements, run, web,
                   invigilators, invigilator_assignments, requests, audit, seat_label, policy_check>>

\* delete_invigilator: refused while any assignment row names the staff member
DeleteInvigilator(staff_id) ==
    /\ IF \E ia \in invigilator_assignments : ia.staff_id = staff_id
       THEN /\ flash' = Answer("delete_invigilator", "error", "Cannot delete invigilator",
                               staff_id, "", S1)
            /\ UNCHANGED invigilators
       ELSE /\ invigilators' = {i \in invigilators : i.staff_id # staff_id}
            /\ flash' = Answer("delete_invigilator", "success",
                               "Invigilator deleted successfully", staff_id, "", S1)
    /\ UNCHANGED <<students, student_subjects, exams, rooms, seating_arrangements, run,
                   web, invigilator_assignments, requests, audit, seat_label, policy_check>>

(***************************************************************************)
(* app.py: assign_invigilators, the automatic assignment of one session.   *)
(***************************************************************************)
\* SELECT DISTINCT sa.room_id, r.name ... FROM seating_arrangements sa JOIN rooms r
\* WHERE exam_date = ? AND session_time = ? AND sa.is_active = 1 GROUP BY sa.room_id:
\* the rooms, in any order (the query has no ORDER BY)
rooms_with_students(session) ==
    Perms(SelectSeq2(rooms, {r \in Range(rooms) :
        \E sa \in seating_arrangements :
            sa.room_id = r.room_id /\ SessionOf(sa) = session /\ sa.is_active}))

\* ORDER BY i.name: the staff ids in the order of their names
StaffByName == <<"X", "Y">>

\* SELECT i.* FROM invigilators i WHERE i.is_active = 1 AND i.staff_id NOT IN
\* (the staff with an active assignment of the session) ORDER BY i.name
available_invigilators(session) ==
    LET free == {i \in invigilators :
                    /\ i.is_active
                    /\ ~\E ia \in invigilator_assignments :
                        ia.staff_id = i.staff_id /\ SessionOf(ia) = session /\ ia.is_active}
        ids == SelectSeq2(StaffByName, {i.staff_id : i \in free})
    IN  [k \in 1..Len(ids) |-> CHOOSE i \in free : i.staff_id = ids[k]]

\* the subject most candidates of the room sit in that session
primary_subject(room_id, session) ==
    LET seated == {sa \in seating_arrangements :
                    sa.room_id = room_id /\ SessionOf(sa) = session /\ sa.is_active}
        count(c) == Cardinality({sa \in seated : sa.subject_code = c})
    IN  CHOOSE c \in {sa.subject_code : sa \in seated} :
            \A o \in {sa.subject_code : sa \in seated} : count(o) <= count(c)

CountSeesCommittedOnly(table, staff_id, session) ==
    Cardinality({ia \in invigilator_assignments :
        ia.staff_id = staff_id /\ SessionOf(ia) = session /\ ia.is_active})

\* SELECT COUNT(*) FROM invigilator_assignments WHERE staff_id = ? AND exam_date = ?
\*   AND session_time = ? AND is_active = 1, on the handler's own connection
balanced_conflict_count(table, staff_id, session) ==
    Cardinality({ia \in table :
        ia.staff_id = staff_id /\ SessionOf(ia) = session /\ ia.is_active})

RECURSIVE balanced_loop(_, _, _, _, _)
\* for room in rooms_with_students, from position k on; acc holds the table as the
\* connection sees it, invigilator_index, assignments_made and the pairs passed over
balanced_loop(room_list, k, available, session, acc) ==
    IF k > Len(room_list) THEN acc
    ELSE LET index == IF acc.invigilator_index >= Len(available) THEN 0
                      ELSE acc.invigilator_index
             invigilator == available[index + 1]
             room == room_list[k]
         IN  IF balanced_conflict_count(acc.table, invigilator.staff_id, session) = 0
             THEN balanced_loop(room_list, k + 1, available, session,
                    [table |-> acc.table \cup
                        {[id |-> Cardinality(acc.table) + 1,
                          staff_id |-> invigilator.staff_id, room_id |-> room.room_id,
                          exam_date |-> session.exam_date,
                          session_time |-> session.session_time,
                          subject_code |-> primary_subject(room.room_id, session),
                          is_active |-> TRUE]},
                     invigilator_index |-> index + 1,
                     assignments_made |-> acc.assignments_made + 1,
                     skipped |-> acc.skipped])
             ELSE balanced_loop(room_list, k + 1, available, session,
                    [acc EXCEPT !.invigilator_index = index + 1,
                                !.skipped = @ \cup {<<invigilator.staff_id, room.room_id>>}])

AssignInvigilators(session, strategy) ==
    /\ IF app_exams(session) = <<>>
       THEN /\ flash' = Answer("assign_invigilators", "error", "No exams found", "", "", session)
            /\ UNCHANGED invigilator_assignments
       ELSE IF \A room_list \in rooms_with_students(session) : room_list = <<>>
       THEN /\ flash' = Answer("assign_invigilators", "error",
                               "No seating arrangements found", "", "", session)
            /\ UNCHANGED invigilator_assignments
       ELSE IF available_invigilators(session) = <<>>
       THEN /\ flash' = Answer("assign_invigilators", "error",
                               "No available invigilators", "", "", session)
            /\ UNCHANGED invigilator_assignments
       ELSE \E room_list \in rooms_with_students(session) :
            LET done == IF strategy = "balanced"
                        THEN balanced_loop(room_list, 1, available_invigilators(session),
                                session,
                                [table |-> invigilator_assignments, invigilator_index |-> 0,
                                 assignments_made |-> 0, skipped |-> {}])
                        ELSE [table |-> invigilator_assignments, invigilator_index |-> 0,
                              assignments_made |-> 0, skipped |-> {}]
            IN  /\ Cardinality(done.table) <= MaxAssignments
                /\ invigilator_assignments' = done.table
                /\ flash' = [Answer("assign_invigilators",
                                IF done.assignments_made > 0 THEN "success" ELSE "warning",
                                IF done.assignments_made > 0 THEN "Successfully assigned"
                                ELSE "No assignments could be made", "", "", session)
                             EXCEPT !.assignments_made = done.assignments_made,
                                    !.skipped = done.skipped]
    /\ UNCHANGED <<students, student_subjects, exams, rooms, seating_arrangements, run,
                   web, invigilators, requests, audit, seat_label, policy_check>>

\* the sessions the invigilator forms are sent for: two examinations of one day
\* whose hours overlap
InvSessions == {S1, S3}

Strategies == {"balanced", "manual"}

NextInv ==
    \/ \E staff_id \in StaffIds, room_id \in RoomIds \cup {""}, session \in InvSessions :
        \E e \in Range(app_exams(session)) :
            ManualAssign(staff_id, room_id, session, e.subject_code)
    \/ \E session \in InvSessions, strategy \in Strategies :
            AssignInvigilators(session, strategy)
    \/ \E assignment_id \in 1..MaxAssignments : Unassign(assignment_id)
    \/ \E room_id \in RoomIds : DeleteRoom(room_id)
    \/ \E staff_id \in StaffIds : DeleteInvigilator(staff_id)

\* Two examinations of one day, 09:00-12:00 and 10:00-13:00.  The allocator has
\* seated the first in halls A and B (Strict keeps s1 and s2 apart) and the second
\* in hall A; hall C is empty; two members of staff and no assignment yet.
InitInv ==
    /\ students = <<Student("s1", 2, "CS"), Student("s2", 1, "CS"), Student("s3", 3, "EE")>>
    /\ student_subjects = {Enrol("s1", "sub1"), Enrol("s2", "sub1"), Enrol("s3", "sub2")}
    /\ exams = <<Exam("sub1", S1, "12:00"), Exam("sub2", S3, "13:00")>>
    /\ rooms = <<Room("A", 2, 2), Room("B", 1, WideCols), Room("C", 1, WideCols)>>
    /\ seating_arrangements =
            {[seating_record([student_id |-> "s1", subject_code |-> "sub1"], "A", 1, 1, S1)
                EXCEPT !.arrangement_id = 1],
             [seating_record([student_id |-> "s2", subject_code |-> "sub1"], "B", 1, 1, S1)
                EXCEPT !.arrangement_id = 1],
             [seating_record([student_id |-> "s3", subject_code |-> "sub2"], "A", 1, 1, S3)
                EXCEPT !.arrangement_id = 2]}
    /\ run = [p \in Procs |-> IdleRun]
    /\ web = NoWeb
    /\ invigilators = {Invigilator(id) : id \in StaffIds}
    /\ invigilator_assignments = {}
    /\ flash = NoFlash
    /\ requests = [p \in Procs |-> IdleRequest]
    /\ audit = NoAudit
    /\ seat_label = NoLabel
    /\ policy_check = NoCheck

SpecInv == InitInv /\ [][NextInv]_vars

\* the three operations of the invigilator assigner alone, for the halls in use
NextAssign ==
    \/ \E staff_id \in StaffIds, room_id \in {"A", "B", ""}, session \in InvSessions :
        \E e \in Range(app_exams(session)) :
            ManualAssign(staff_id, room_id, session, e.subject_code)
    \/ \E session \in InvSessions, strategy \in Strategies :
            AssignInvigilators(session, strategy)
    \/ \E assignment_id \in 1..MaxAssignments : Unassign(assignment_id)

SpecAssign == InitInv /\ [][NextAssign]_vars

\* automatic assignment, unassign and delete_invigilator
NextStaffed ==
    \/ \E session \in InvSessions, strategy \in Strategies :
            AssignInvigilators(session, strategy)
    \/ \E assignment_id \in 1..MaxAssignments : Unassign(assignment_id)
    \/ \E staff_id \in StaffIds : DeleteInvigilator(staff_id)

SpecStaffed == InitInv /\ [][NextStaffed]_vars

(***************************************************************************)
(* Requests served at the same time.  Every request of                     *)
(* manual_assign_invigilator opens its own connection; its conflict SELECT *)
(* opens no transaction, the INSERT opens one and conn.commit() ends it,   *)
(* so another request's statements can run between the two.                *)
(***************************************************************************)
ManualCheck(p, staff_id, room_id, session, subject_code) ==
    /\ requests[p].pc = "idle"
    /\ IF "" \in {staff_id, room_id, subject_code}
       THEN /\ flash' = Answer("manual_assign", "error", "All fields are required",
                               staff_id, room_id, session)
            /\ requests' = [requests EXCEPT ![p].pc = "done"]
       ELSE IF manual_conflicts(staff_id, session) # {}
       THEN /\ \E conflict \in manual_conflicts(staff_id, session) :
                    flash' = [Answer("manual_assign", "error", "is already assigned to",
                                     staff_id, room_id, session) EXCEPT
                                !.invigilator_name = conflict.invigilator_name,
                                !.room_name = conflict.room_name]
            /\ requests' = [requests EXCEPT ![p].pc = "done"]
       ELSE /\ requests' = [requests EXCEPT ![p] =
                    [pc |-> "insert", staff_id |-> staff_id, room_id |-> room_id,
                     session |-> session, subject_code |-> subject_code]]
            /\ UNCHANGED flash
    /\ UNCHANGED <<students, student_subjects, exams, rooms, seating_arrangements, run,
                   web, invigilators, invigilator_assignments, audit, seat_label, policy_check>>

\* INSERT INTO invigilator_assignments ...; conn.commit()
ManualInsert(p) ==
    /\ requests[p].pc = "insert"
    /\ invigilator_assignments' = invigilator_assignments \cup
            {assignment_record(requests[p].staff_id, requests[p].room_id,
                               requests[p].session, requests[p].subject_code)}
    /\ flash' = Answer("manual_assign", "success", "Invigilator assigned successfully",
                       requests[p].staff_id, requests[p].room_id, requests[p].session)
    /\ requests' = [requests EXCEPT ![p].pc = "done"]
    /\ UNCHANGED <<students, student_subjects, exams, rooms, seating_arrangements, run,
                   web, invigilators, audit, seat_label, policy_check>>

NextInvConc ==
    \/ \E p \in Procs, staff_id \in StaffIds, room_id \in RoomIds \cup {""},
          session \in InvSessions :
        \E e \in Range(app_exams(session)) :
            ManualCheck(p, staff_id, room_id, session, e.subject_code)
    \/ \E p \in Procs : ManualInsert(p)
    \/ \E session \in InvSessions, strategy \in Strategies :
            AssignInvigilators(session, strategy)

SpecInvConc == InitInv /\ [][NextInvConc]_vars

(***************************************************************************)
(* The writers of table rooms: Room.save of backend/models.py (used by     *)
(* frontend/routes.py, backend/utils.py and setup.py) and add_room and     *)
(* edit_room of app.py, next to the allocator that reads the table.        *)
(***************************************************************************)
ValidateIgnoresCapacity(room_id, name, nrows, ncols, capacity) ==
    IF room_id = "" THEN "Room ID is required"
    ELSE IF name = <<>> THEN "Room name is required"
    ELSE IF nrows <= 0 THEN "Rows must be a positive integer"
    ELSE IF ncols <= 0 THEN "Columns must be a positive integer"
    ELSE IF capacity <= 0 THEN "Capacity must be a positive integer"
    ELSE ""

\* Room._validate: the message of the ValueError it raises, "" when it returns
room_validate(room_id, name, nrows, ncols, capacity) ==
    IF room_id = "" THEN "Room ID is required"
    ELSE IF name = <<>> THEN "Room name is required"
    ELSE IF nrows <= 0 THEN "Rows must be a positive integer"
    ELSE IF ncols <= 0 THEN "Columns must be a positive integer"
    ELSE IF capacity <= 0 THEN "Capacity must be a positive integer"
    ELSE IF capacity # nrows * ncols THEN "Capacity must equal rows x columns"
    ELSE ""

\* UPDATE rooms SET ... WHERE room_id = ?
update_room(row) ==
    [k \in DOMAIN rooms |-> IF rooms[k].room_id = row.room_id THEN row ELSE rooms[k]]

\* Room(...).save(): an UPDATE for a room loaded from the table, an INSERT otherwise
SaveRoom(room_id, nrows, ncols, capacity) ==
    /\ LET row == [Room(room_id, nrows, ncols) EXCEPT !.capacity = capacity]
           error == room_validate(room_id, row.name, nrows, ncols, capacity)
       IN  IF error # ""
           THEN /\ flash' = Answer("room_save", "error", error, "", room_id, S1)
                /\ UNCHANGED rooms
           ELSE /\ rooms' = IF \E r \in Range(rooms) : r.room_id = room_id
                            THEN update_room(row) ELSE Append(rooms, row)
                /\ flash' = Answer("room_save", "success", "Room saved", "", room_id, S1)
    /\ UNCHANGED <<students, student_subjects, exams, seating_arrangements, run, web,
                   invigilators, invigilator_assignments, requests, audit, seat_label, policy_check>>

\* app.py add_room: capacity = rows * cols
AddRoom(room_id, nrows, ncols) ==
    /\ IF \E r \in Range(rooms) : r.room_id = room_id
       THEN /\ flash' = Answer("add_room", "error", "Room ID already exists", "", room_id, S1)
            /\ UNCHANGED rooms
       ELSE /\ rooms' = Append(rooms, Room(room_id, nrows, ncols))
            /\ flash' = Answer("add_room", "success", "Room added successfully", "",
                               room_id, S1)
    /\ UNCHANGED <<students, student_subjects, exams, seating_arrangements, run, web,
                   invigilators, invigilator_assignments, requests, audit, seat_label, policy_check>>

\* app.py edit_room: capacity = rows * cols
EditRoom(room_id, nrows, ncols) ==
    /\ rooms' = update_room(Room(room_id, nrows, ncols))
    /\ flash' = Answer("edit_room", "success", "Room updated successfully", "", room_id, S1)
    /\ UNCHANGED <<students, student_subjects, exams, seating_arrangements, run, web,
                   invigilators, invigilator_assignments, requests, audit, seat_label, policy_check>>

\* the values the room forms are sent with
FormRooms == {"C"}
FormRows == {0, 1}
FormCols == {1, 2}
FormCapacities == {0, 1, 2}

\* one administrator: room forms and generate calls, one after the other
NextRooms ==
    \/ \E room_id \in FormRooms, nrows \in FormRows, ncols \in FormCols,
          capacity \in FormCapacities : SaveRoom(room_id, nrows, ncols, capacity)
    \/ \E room_id \in FormRooms, ncols \in FormCols : AddRoom(room_id, 1, ncols)
    \/ \E room_id \in FormRooms, ncols \in FormCols : EditRoom(room_id, 1, ncols)
    \/ \E p \in SeqProcs :
        \/ \E preserve_existing \in BOOLEAN : Start(p, S1, "optimal", preserve_existing)
        \/ CheckRoom(p)
        \/ CheckCapacity(p)
        \/ Clear(p)
        \/ Arrange(p, "alphabetical", "relaxed")
        \/ Place(p)
        \/ Finish(p)

\* two candidates of one examination, halls A and B
InitRooms == Stored({sc \in Scenarios : Len(sc.students) = 2 /\ Len(sc.exams) = 1})

SpecRooms == InitRooms /\ [][NextRooms]_vars

(***************************************************************************)
(* SeatingAlgorithm.validate_arrangement: one SELECT over the active rows  *)
(* of the session, then a pass over the rows in the order of the query.    *)
(***************************************************************************)
\* ORDER BY sa.room_id
RoomOrder == <<"A", "B", "C">>

\* directions, in the order of the list in the code
DirectionList ==
    <<(<<-1, 0>>), (<<1, 0>>), (<<0, -1>>), (<<0, 1>>),
      (<<-1, -1>>), (<<-1, 1>>), (<<1, -1>>), (<<1, 1>>)>>

\* SELECT sa.*, s.name, s.department ... FROM seating_arrangements sa
\* JOIN students s ... JOIN subjects sub ... WHERE exam_date, session_time, is_active = 1
audit_query(session) ==
    {[student_id |-> r.student_id, subject_code |-> r.subject_code, room_id |-> r.room_id,
      seat_row |-> r.seat_row, seat_col |-> r.seat_col,
      student_name |-> s.name, department |-> s.department] :
        <<r, s>> \in {x \in seating_arrangements \X Range(students) :
                        /\ x[1].student_id = x[2].student_id
                        /\ x[1].subject_code \in Subjects
                        /\ SessionOf(x[1]) = session
                        /\ x[1].is_active}}

\* the conflict record of a seat and its neighbour
conflict_record(seat, adj_seat) ==
    [type |-> "adjacent_conflict", room_id |-> seat.room_id,
     student1 |-> [id |-> seat.student_id, name |-> seat.student_name,
                   position |-> <<seat.seat_row, seat.seat_col>>,
                   department |-> seat.department, subject |-> seat.subject_code],
     student2 |-> [id |-> adj_seat.student_id, name |-> adj_seat.student_name,
                   position |-> <<adj_seat.seat_row, adj_seat.seat_col>>,
                   department |-> adj_seat.department, subject |-> adj_seat.subject_code]]

\* for room, for seat (by row, then column), for direction: the records appended
audit_pass(arrangements) ==
    LET nrows == IF arrangements = {} THEN 0
                 ELSE CHOOSE n \in {a.seat_row : a \in arrangements} :
                        \A a \in arrangements : a.seat_row <= n
        ncols == IF arrangements = {} THEN 0
                 ELSE CHOOSE n \in {a.seat_col : a \in arrangements} :
                        \A a \in arrangements : a.seat_col <= n
        steps == Len(RoomOrder) * nrows * ncols * Len(DirectionList)
        visit(n) ==
            LET m == n - 1
            IN  [room_id |-> RoomOrder[(m \div (Len(DirectionList) * ncols * nrows)) + 1],
                 row |-> ((m \div (Len(DirectionList) * ncols)) % nrows) + 1,
                 col |-> ((m \div Len(DirectionList)) % ncols) + 1,
                 d |-> DirectionList[(m % Len(DirectionList)) + 1]]
        at(room_id, row, col) ==
            {a \in arrangements :
                a.room_id = room_id /\ a.seat_row = row /\ a.seat_col = col}
        hit(v) ==
            \E seat \in at(v.room_id, v.row, v.col),
               adj_seat \in at(v.room_id, v.row + v.d[1], v.col + v.d[2]) :
                \/ seat.department = adj_seat.department
                \/ seat.subject_code = adj_seat.subject_code
        hits == SelectSeq2([n \in 1..steps |-> visit(n)],
                           {v \in {visit(n) : n \in 1..steps} : hit(v)})
    IN  [i \in 1..Len(hits) |->
            conflict_record(
                CHOOSE seat \in at(hits[i].room_id, hits[i].row, hits[i].col) : TRUE,
                CHOOSE adj_seat \in at(hits[i].room_id, hits[i].row + hits[i].d[1],
                                       hits[i].col + hits[i].d[2]) : TRUE)]

ValidateAccumulates(session) == audit.conflicts \o audit_pass(audit_query(session))

\* conflicts = []; ...; return conflicts
validate_arrangement(session) == audit_pass(audit_query(session))

\* a call of validate_arrangement (GET /api/seating/validate)
Validate(session) ==
    /\ audit' = [called |-> TRUE, session |-> session,
                 conflicts |-> validate_arrangement(session),
                 read |-> seating_arrangements,
                 again |-> /\ audit.called
                           /\ audit.session = session
                           /\ audit.read = seating_arrangements]
    /\ UNCHANGED <<students, student_subjects, exams, rooms, seating_arrangements, run,
                   web, invigilators, invigilator_assignments, flash, requests,
                   seat_label, policy_check>>

\* generate calls and audits, one after the other
NextAudit ==
    \/ /\ \A p \in SeqProcs : run[p].pc \in {"idle", "done"}
       /\ \E session \in Sessions : Validate(session)
    \/ \E p \in SeqProcs :
        \/ \E session \in Sessions : Start(p, session, "optimal", FALSE)
        \/ CheckRoom(p)
        \/ CheckCapacity(p)
        \/ Clear(p)
        \/ \E conflict_avoidance \in Policies : Arrange(p, "alphabetical", conflict_avoidance)
        \/ Place(p)
        \/ Finish(p)

\* the data sets of three and of four candidates, and the one of one department
\* sitting two subjects together
AuditScenarios == {sc \in Scenarios : Len(sc.students) >= 3 \/ Len(sc.exams) = 3}

InitAudit == Stored(AuditScenarios)

SpecAudit == InitAudit /\ [][NextAudit]_vars

(***************************************************************************)
(* Seat labels (app.py generate_seat_number).  A label is the sequence of  *)
(* the code points of its characters.                                      *)
(***************************************************************************)
MaxLabelCols == 3    \* the widest room a label is asked for

\* the rows labels are asked for: both sides of every change of the row part
LabelRows == {1, 2, 26, 27, 28, 52, 53, 702, 703, 704}

\* the room ids "A" and "R1"
LabelRooms == {<<65>>, <<82, 49>>}

NumberingSchemes == {"sequential", "row_col", "alpha_numeric", "room_prefix", "other"}

\* ord(c) of the characters the labels are built from
ord == ("A" :> 65) @@ ("R" :> 82) @@ ("C" :> 67) @@ ("-" :> 45) @@ ("0" :> 48)

RECURSIVE str(_)
\* str(n) of a natural number: its decimal digits
str(n) ==
    IF n < 10 THEN <<ord["0"] + n>>
    ELSE str(n \div 10) \o <<ord["0"] + (n % 10)>>

\* f"{seat_num:03d}": the digits, filled with zeros to three places
format_03d(seat_num) ==
    LET digits == str(seat_num)
    IN  IF Len(digits) >= 3 THEN digits
        ELSE [i \in 1..(3 - Len(digits)) |-> ord["0"]] \o digits

RowLetterWraps(row) == <<ord["A"] + ((row - 1) % 26)>>

\* row_letter of the alpha_numeric scheme
row_letter(row) ==
    IF row <= 26
    THEN <<ord["A"] + row - 1>>
    ELSE LET first_letter == ord["A"] + ((row - 27) \div 26)
             second_letter == ord["A"] + ((row - 27) % 26)
         IN  <<first_letter, second_letter>>

generate_seat_number(room_id, row, col, numbering_scheme, max_cols) ==
    CASE numbering_scheme = "sequential" -> str((row - 1) * max_cols + col)
      [] numbering_scheme = "row_col" -> <<ord["R"]>> \o str(row) \o <<ord["C"]>> \o str(col)
      [] numbering_scheme = "alpha_numeric" -> row_letter(row) \o str(col)
      [] numbering_scheme = "room_prefix" ->
            room_id \o <<ord["-"]>> \o format_03d((row - 1) * max_cols + col)
      [] OTHER -> str((row - 1) * max_cols + col)

\* a call of generate_seat_number for a seat of a room of max_cols columns, as
\* generate_seating_arrangement and regenerate_seat_numbers make it
GenerateSeatNumber(room_id, row, col, numbering_scheme, max_cols) ==
    /\ seat_label' = [called |-> TRUE, room_id |-> room_id, row |-> row, col |-> col,
                      numbering_scheme |-> numbering_scheme, max_cols |-> max_cols,
                      seat_number |-> generate_seat_number(room_id, row, col,
                                                           numbering_scheme, max_cols)]
    /\ UNCHANGED <<students, student_subjects, exams, rooms, seating_arrangements, run,
                   web, invigilators, invigilator_assignments, flash, requests, audit,
                   policy_check>>

NextLabels ==
    \E room_id \in LabelRooms, row \in LabelRows, max_cols \in 1..MaxLabelCols,
       numbering_scheme \in NumberingSchemes :
        \E col \in 1..max_cols :
            GenerateSeatNumber(room_id, row, col, numbering_scheme, max_cols)

\* the labels are asked for on the data sets of two rooms
InitLabels == Stored(ConcScenarios)

SpecLabels == InitLabels /\ [][NextLabels]_vars


(***************************************************************************)
(* Calls with room_utilization 'optimal' (the default), over rooms of      *)
(* three sizes and candidates of whom some or none conflict.               *)
(***************************************************************************)
OptimalScenarios ==
    {\* three candidates no two of whom conflict, a room of two seats and two of one
     [students |-> <<Student("s1", 2, "CS"), Student("s2", 1, "EE"), Student("s3", 3, "ME")>>,
      student_subjects |-> {Enrol("s1", "sub1"), Enrol("s2", "sub2"), Enrol("s3", "sub3")},
      exams |-> <<Exam("sub1", S1, "12:00"), Exam("sub2", S1, "12:00"),
                  Exam("sub3", S1, "12:00")>>,
      rooms |-> <<Room("B", 1, 1), Room("A", 1, 2), Room("C", 1, 1)>>],
     \* two of three candidates conflict, a room of four seats and one of two
     [students |-> <<Student("s1", 2, "CS"), Student("s2", 1, "EE"), Student("s3", 3, "CS")>>,
      student_subjects |-> {Enrol("s1", "sub1"), Enrol("s2", "sub2"), Enrol("s3", "sub1")},
      exams |-> <<Exam("sub1", S1, "12:00"), Exam("sub2", S1, "12:00")>>,
      rooms |-> <<Room("B", 1, 2), Room("A", 2, 2)>>]}

InitOptimal == Stored(OptimalScenarios)

NextOptimal ==
    \E p \in SeqProcs :
        \/ \E session \in Sessions, preserve_existing \in BOOLEAN :
                Start(p, session, "optimal", preserve_existing)
        \/ CheckRoom(p)
        \/ CheckCapacity(p)
        \/ Clear(p)
        \/ \E arrangement_type \in ArrangementTypes, conflict_avoidance \in Policies :
                Arrange(p, arrangement_type, conflict_avoidance)
        \/ Place(p)
        \/ Finish(p)

SpecOptimal == InitOptimal /\ [][NextOptimal]_vars


\* requests to /seating/generate over the same data
SpecAppOptimal == InitOptimal /\ [][NextApp]_vars


(***************************************************************************)
(* The three conflict checks called on one grid: a room of two rows and    *)
(* two columns, any of whose seats may be taken by any kind of candidate.  *)
(***************************************************************************)
\* the kinds of candidate the checks tell apart: department and subject
CheckCandidates ==
    <<[student_id |-> "s1", name |-> 1, department |-> "CS", subject_code |-> "sub1"],
      [student_id |-> "s2", name |-> 2, department |-> "CS", subject_code |-> "sub2"],
      [student_id |-> "s3", name |-> 3, department |-> "EE", subject_code |-> "sub1"],
      [student_id |-> "s4", name |-> 4, department |-> "EE", subject_code |-> "sub2"]>>

CheckGrid(cells) == [EmptyGrid(Room("A", 2, 2)) EXCEPT !.cells = cells]

\* conflict_strategy(student, grid, row, col) of each of the three strategies for
\* an empty seat of the grid
CheckSeat(student, cells, row, col) ==
    /\ ~policy_check.called
    /\ cells[<<row, col>>] = None
    /\ policy_check' =
            [called |-> TRUE, student |-> student, cells |-> cells, row |-> row, col |-> col,
             strict |-> strict_conflict_check(CheckCandidates[student], CheckGrid(cells),
                                              CheckCandidates, row, col),
             moderate |-> moderate_conflict_check(CheckCandidates[student], CheckGrid(cells),
                                                  CheckCandidates, row, col),
             relaxed |-> relaxed_conflict_check(CheckCandidates[student], CheckGrid(cells),
                                                CheckCandidates, row, col)]
    /\ UNCHANGED <<students, student_subjects, exams, rooms, seating_arrangements, run,
                   web, invigilators, invigilator_assignments, flash, requests, audit,
                   seat_label>>

NextChecks ==
    \E student \in DOMAIN CheckCandidates,
       cells \in [DOMAIN EmptyGrid(Room("A", 2, 2)).cells ->
                    {None} \cup DOMAIN CheckCandidates],
       row \in 0..1, col \in 0..1 :
        CheckSeat(student, cells, row, col)

SpecChecks == InitLabels /\ [][NextChecks]_vars


(***************************************************************************)
(* Vocabulary of the properties.                                           *)
(***************************************************************************)
Returned(p) == run[p].pc = "done"
Succeeded(p) == run[p].pc = "done" /\ run[p].result.success

DepartmentOf(student_id) ==
    (CHOOSE s \in Range(students) : s.student_id = student_id).department

\* two stored seats hold candidates of one department or one subject
SharesDeptOrSubject(a, b) ==
    \/ DepartmentOf(a.student_id) = DepartmentOf(b.student_id)
    \/ a.subject_code = b.subject_code

Abs(n) == IF n < 0 THEN -n ELSE n

\* b is one of the 8 seats around a, in the same room
Neighbour8(a, b) ==
    /\ a.room_id = b.room_id
    /\ <<a.seat_row, a.seat_col>> # <<b.seat_row, b.seat_col>>
    /\ Abs(a.seat_row - b.seat_row) <= 1
    /\ Abs(a.seat_col - b.seat_col) <= 1

\* b is the seat above, below, left or right of a, in the same room
Neighbour4(a, b) ==
    /\ a.room_id = b.room_id
    /\ Abs(a.seat_row - b.seat_row) + Abs(a.seat_col - b.seat_col) = 1

\* the seats of the run's grids, as (room, row, col, position in the visiting order)
GridSeats(p) ==
    {[room_id |-> id, seat_row |-> rc[1] + 1, seat_col |-> rc[2] + 1,
      position |-> run[p].room_grids[id].cells[rc],
      student_id |-> run[p].arranged[run[p].room_grids[id].cells[rc]].student_id,
      subject_code |-> run[p].arranged[run[p].room_grids[id].cells[rc]].subject_code] :
        <<id, rc>> \in {x \in UNION {{<<i, c>> : c \in DOMAIN run[p].room_grids[i].cells} :
                                        i \in DOMAIN run[p].room_grids} :
                            run[p].room_grids[x[1]].cells[x[2]] # None}}

ActiveOf(table, session) == {r \in table : SessionOf(r) = session /\ r.is_active}

(***************************************************************************)
(* C1: in every run of the allocator each candidate is counted exactly     *)
(* once: while the loop runs, allocated + failed is the number of          *)
(* candidates visited, and in the returned result allocated + failed is    *)
(* the number of candidates passed in.                                     *)
(***************************************************************************)
C1_EveryCandidateCounted ==
    \A p \in Procs :
        /\ run[p].pc = "allocate" =>
            /\ run[p].allocated_count + Len(run[p].failed_students) = run[p].idx - 1
            /\ Cardinality(GridSeats(p)) = run[p].allocated_count
        /\ Succeeded(p) =>
            /\ run[p].result.students_allocated + run[p].result.students_failed
                    = Len(run[p].students)
            /\ run[p].result.students_allocated = Cardinality(run[p].inserted)

C1_Witness ==
    \E p \in Procs :
        /\ Succeeded(p)
        /\ run[p].result.students_allocated > 0
        /\ run[p].result.students_failed > 0

(***************************************************************************)
(* C3: in the arrangement a Strict run has stored, no seat has one of its  *)
(* 8 neighbours held by a candidate of the same department or subject.     *)
(***************************************************************************)
C3_StrictNoConflictingNeighbour ==
    \A p \in Procs :
        (Succeeded(p) /\ run[p].conflict_avoidance = "strict") =>
            \A a, b \in run[p].inserted :
                Neighbour8(a, b) => ~SharesDeptOrSubject(a, b)

C3_Witness ==
    \E p \in Procs :
        /\ Succeeded(p)
        /\ run[p].conflict_avoidance = "strict"
        /\ run[p].conflicts_resolved > 0
        /\ \E a, b \in run[p].inserted : Neighbour8(a, b)

(***************************************************************************)
(* C4, as claimed: in the arrangement a Moderate run has stored, every     *)
(* seat has at most one orthogonal neighbour whose candidate shares its    *)
(* department or subject.                                                  *)
(***************************************************************************)
C4_Original ==
    \A p \in Procs :
        (Succeeded(p) /\ run[p].conflict_avoidance = "moderate") =>
            \A a \in run[p].inserted :
                Cardinality({b \in run[p].inserted :
                    Neighbour4(a, b) /\ SharesDeptOrSubject(a, b)}) <= 1

(***************************************************************************)
(* C4, amended: in the arrangement of a Moderate run, every seat has at    *)
(* most one orthogonal neighbour that was seated before it and whose       *)
(* candidate shares its department or subject.                             *)
(***************************************************************************)
C4_ModerateAtPlacement ==
    \A p \in Procs :
        (run[p].pc \in {"allocate", "done"} /\ run[p].conflict_avoidance = "moderate") =>
            \A a \in GridSeats(p) :
                Cardinality({b \in GridSeats(p) :
                    /\ Neighbour4(a, b)
                    /\ b.position < a.position
                    /\ SharesDeptOrSubject(a, b)}) <= 1

C4_Witness ==
    \E p \in Procs :
        /\ Succeeded(p)
        /\ run[p].conflict_avoidance = "moderate"
        /\ run[p].conflicts_resolved > 0
        /\ \E a \in run[p].inserted :
            Cardinality({b \in run[p].inserted :
                Neighbour4(a, b) /\ SharesDeptOrSubject(a, b)}) = 2

(***************************************************************************)
(* C5: a second generate with preserve_existing = false, right after a     *)
(* successful one for the same session (same roster, same rooms),          *)
(* succeeds and seats the same students, in the same number.               *)
(***************************************************************************)
SeatedStudents(table, session) == {r.student_id : r \in ActiveOf(table, session)}

IsRerun(p) ==
    /\ Returned(p)
    /\ ~run[p].preserve_existing
    /\ run[p].prev.called
    /\ run[p].prev.success
    /\ ~run[p].prev.preserve_existing
    /\ run[p].prev.session = run[p].session

C5_RerunSeatsTheSame ==
    \A p \in Procs :
        IsRerun(p) =>
            /\ run[p].result.success
            /\ SeatedStudents(seating_arrangements, run[p].session)
                    = SeatedStudents(run[p].before, run[p].session)
            /\ Cardinality(ActiveOf(seating_arrangements, run[p].session))
                    = Cardinality(ActiveOf(run[p].before, run[p].session))

\* the rerun of test_tc_seat_04: a second room takes the whole roster
C5_RerunInSpareRoom ==
    \E p \in Procs :
        /\ IsRerun(p)
        /\ run[p].result.success
        /\ SeatedStudents(seating_arrangements, run[p].session)
                = SeatedStudents(run[p].before, run[p].session)

(***************************************************************************)
(* C6: when a generate call that replaces the arrangement has completed,   *)
(* every seat assignment that was active for the session before the call   *)
(* is still stored, now inactive, and the active assignments of the        *)
(* session are exactly the rows the call inserted.  The allocator's call   *)
(* with preserve_existing = false and the call of app.py's generator are   *)
(* the two calls that replace.                                             *)
(***************************************************************************)
SoftDeleted(before, session) ==
    \A r \in ActiveOf(before, session) : [r EXCEPT !.is_active = FALSE] \in seating_arrangements

AllocatorReplaces ==
    \A p \in Procs :
        (Succeeded(p) /\ ~run[p].preserve_existing) =>
            /\ SoftDeleted(run[p].before, run[p].session)
            /\ ActiveOf(seating_arrangements, run[p].session) = run[p].inserted

AppReplaces ==
    (web.called /\ web.message \in {"Success", "Could only allocate"}) =>
        /\ SoftDeleted(web.before, web.session)
        /\ ActiveOf(seating_arrangements, web.session) = web.inserted

C6_ReplacedBySoftDelete == AllocatorReplaces /\ AppReplaces

\* a replacing call of the allocator that had an arrangement to replace
AllocatorReplaced ==
    \E p \in Procs :
        /\ Succeeded(p)
        /\ ~run[p].preserve_existing
        /\ ActiveOf(run[p].before, run[p].session) # {}

(***************************************************************************)
(* C7: when an insert raises after the clear step has run, the arrangement *)
(* that was active before the call is still the active arrangement of the  *)
(* session: nothing of it is lost and nothing of the new one is visible.   *)
(***************************************************************************)
C7_FailedWriteKeepsPrevious ==
    \A p \in Procs :
        (/\ Returned(p)
         /\ ~run[p].preserve_existing
         /\ run[p].result.message = "Error generating seating arrangement") =>
            ActiveOf(seating_arrangements, run[p].session)
                = ActiveOf(run[p].before, run[p].session)

(***************************************************************************)
(* C2: among the stored seat assignments, no two active ones of the same   *)
(* room, exam date and session time have the same (seat_row, seat_col),    *)
(* whatever the requests and however their statements interleave.          *)
(***************************************************************************)
C2_SeatHeldOnce ==
    \A a, b \in seating_arrangements :
        (/\ a.is_active /\ b.is_active
         /\ a.room_id = b.room_id
         /\ SessionOf(a) = SessionOf(b)
         /\ a.seat_row = b.seat_row
         /\ a.seat_col = b.seat_col) => a = b

\* two requests of one session, neither clearing: one stored its seats, the other
\* was refused a seat the first holds
C2_Witness ==
    \E p, q \in Procs :
        /\ Succeeded(p)
        /\ Returned(q)
        /\ run[q].result.message = "Error generating seating arrangement"
        /\ run[p].session = run[q].session
        /\ run[p].preserve_existing
        /\ run[q].preserve_existing
        /\ run[p].inserted # {}

(***************************************************************************)
(* C8: at most one allocation is in flight per session, and once two       *)
(* requests of one session have both returned, the active arrangement of   *)
(* the session is what one run that succeeded has inserted, all of it.     *)
(***************************************************************************)
InFlight(p) == run[p].pc \notin {"idle", "done"}

NeverTwoInFlight ==
    \A p, q \in Procs :
        (p # q /\ InFlight(p) /\ InFlight(q)) => run[p].session # run[q].session

FinalIsOneRun ==
    \A p, q \in Procs :
        (/\ p # q
         /\ Returned(p) /\ Returned(q)
         /\ run[p].session = run[q].session
         /\ ~run[p].preserve_existing /\ ~run[q].preserve_existing
         /\ run[p].result.success \/ run[q].result.success) =>
            \E w \in {p, q} :
                /\ run[w].result.success
                /\ ActiveOf(seating_arrangements, run[w].session) = run[w].inserted

C8_OneRunAtATime == NeverTwoInFlight /\ FinalIsOneRun

(***************************************************************************)
(* C10: a manual assignment of a staff member who holds an active          *)
(* assignment to another room at the same date and time is rejected with a *)
(* message naming a room the staff member holds, and stores no row.        *)
(***************************************************************************)
HeldElsewhere(staff_id, room_id, session) ==
    {ia \in invigilator_assignments :
        /\ ia.staff_id = staff_id
        /\ SessionOf(ia) = session
        /\ ia.is_active
        /\ ia.room_id # room_id}

C10_SecondRoomRefused ==
    [][(/\ flash'.handler = "manual_assign"
        /\ flash'.room_id # ""
        /\ HeldElsewhere(flash'.staff_id, flash'.room_id, flash'.session) # {}) =>
            /\ flash'.category = "error"
            /\ flash'.room_name \in
                    {<<"Hall", ia.room_id>> :
                        ia \in HeldElsewhere(flash'.staff_id, flash'.room_id, flash'.session)}
            /\ invigilator_assignments' = invigilator_assignments]_vars

\* the same, for a staff member and rooms the tables still hold
SecondRoomRefusedWhileStored ==
    [][(/\ flash'.handler = "manual_assign"
        /\ flash'.room_id # ""
        /\ \E ia \in HeldElsewhere(flash'.staff_id, flash'.room_id, flash'.session) :
                /\ \E r \in Range(rooms) : r.room_id = ia.room_id
                /\ \E i \in invigilators : i.staff_id = ia.staff_id) =>
            /\ flash'.category = "error"
            /\ flash'.room_name \in
                    {<<"Hall", ia.room_id>> :
                        ia \in HeldElsewhere(flash'.staff_id, flash'.room_id, flash'.session)}
            /\ invigilator_assignments' = invigilator_assignments]_vars

(***************************************************************************)
(* C9: after any generate call, a student id appears at most once among    *)
(* the active seat assignments of the session.                             *)
(***************************************************************************)
C9_StudentSeatedOnce ==
    \A p \in Procs :
        Returned(p) =>
            \A a, b \in ActiveOf(seating_arrangements, run[p].session) :
                a.student_id = b.student_id => a = b

(***************************************************************************)
(* C11: after any sequence of manual assign, balanced assign and unassign, *)
(* no staff member holds two active assignments on one date whose exam     *)
(* windows, start_time to end_time, overlap.                               *)
(***************************************************************************)
\* "HH:MM" strings compare as the minutes of the day they name
Minutes(t) ==
    CASE t = "09:00" -> 540
      [] t = "10:00" -> 600
      [] t = "12:00" -> 720
      [] t = "13:00" -> 780
      [] t = "14:00" -> 840
      [] OTHER -> 1020

\* the examinations an assignment stands for: those of its subject on its date
WindowsOf(ia) ==
    {e \in Range(exams) : e.subject_code = ia.subject_code /\ e.exam_date = ia.exam_date}

Overlap(e1, e2) ==
    \/ /\ Minutes(e1.start_time) <= Minutes(e2.start_time)
       /\ Minutes(e1.end_time) > Minutes(e2.start_time)
    \/ /\ Minutes(e2.start_time) <= Minutes(e1.start_time)
       /\ Minutes(e2.end_time) > Minutes(e1.start_time)

C11_NoOverlappingWindows ==
    \A a, b \in invigilator_assignments :
        (/\ a.id # b.id
         /\ a.staff_id = b.staff_id
         /\ a.is_active /\ b.is_active
         /\ a.exam_date = b.exam_date) =>
            \A e1 \in WindowsOf(a), e2 \in WindowsOf(b) : ~Overlap(e1, e2)

\* what the handlers do keep apart: two assignments whose rooms and staff are
\* stored and whose date and start time are equal
SameStartKeptApart ==
    \A a, b \in invigilator_assignments :
        (/\ a.id # b.id
         /\ a.staff_id = b.staff_id
         /\ a.is_active /\ b.is_active
         /\ SessionOf(a) = SessionOf(b)) =>
            \E x \in {a, b} : \/ ~\E r \in Range(rooms) : r.room_id = x.room_id
                              \/ ~\E i \in invigilators : i.staff_id = x.staff_id

(***************************************************************************)
(* C12: under any interleaving of assignment requests of one session, no   *)
(* staff member ends up with two active assignments for the same           *)
(* (exam_date, session_time).                                              *)
(***************************************************************************)
C12_OneActivePerSession ==
    \A a, b \in invigilator_assignments :
        (/\ a.staff_id = b.staff_id
         /\ SessionOf(a) = SessionOf(b)
         /\ a.is_active /\ b.is_active) => a.id = b.id

\* the second row is always written by a manual request whose conflict SELECT ran
\* before the row it collides with was committed
OnlyARaceDoubles ==
    [][(C12_OneActivePerSession /\ ~C12_OneActivePerSession') =>
            \E p \in Procs :
                /\ requests[p].pc = "insert" /\ requests'[p].pc = "done"
                /\ \E ia \in invigilator_assignments :
                        /\ ia.staff_id = requests[p].staff_id
                        /\ SessionOf(ia) = requests[p].session
                        /\ ia.is_active]_vars

(***************************************************************************)
(* C13: when the candidates outnumber the seats of the available rooms,    *)
(* generate returns a failure that carries the seats needed and the seats  *)
(* available, and no stored seat assignment is changed by the call.        *)
(***************************************************************************)
\* the seats a list of rooms declares, counted one by one
SeatsDeclared(room_list) ==
    Cardinality(UNION {{<<k, n>> : n \in 1..room_list[k].capacity} : k \in DOMAIN room_list})

PlacedIn(rows, room_id) == {r \in rows : r.room_id = room_id}

PlacedWithinCapacity ==
    \A p \in Procs :
        /\ \A room \in Range(run[p].rooms) :
                Cardinality(PlacedIn(run[p].inserted, room.room_id)) <= room.capacity
        /\ \A r \in run[p].inserted : \E room \in Range(run[p].rooms) : room.room_id = r.room_id
        /\ Cardinality(run[p].inserted) <= SeatsDeclared(run[p].rooms)

SurplusReportedUnplaced ==
    \A p \in Procs :
        (/\ Returned(p)
         /\ run[p].rooms # <<>>
         /\ Len(run[p].students) > SeatsDeclared(run[p].rooms)) =>
            /\ run[p].result.students_failed > 0
            /\ run[p].result.students_failed
                    = Len(run[p].students) - run[p].result.students_allocated

C14_WithinCapacitySurplusUnplaced == PlacedWithinCapacity /\ SurplusReportedUnplaced

\* the generator of app.py fills the seats there are and answers with the shortfall
AppPlacesWithinCapacity ==
    web.called =>
        /\ \A room \in Range(rooms) :
                Cardinality(PlacedIn(web.inserted, room.room_id)) <= room.capacity
        /\ (Cardinality(web.inserted) < Len(app_students(app_exams(web.session))) /\
            web.message # "No rooms available") =>
                ~web.success /\ web.message = "Could only allocate"

(***************************************************************************)
(* C15: no seat allocation runs on a room whose capacity differs from      *)
(* rows x cols: Room.save raises on such a room and stores nothing, so no  *)
(* stored room, no room a run reads and no room a candidate is placed in   *)
(* has capacity # rows * cols.                                             *)
(***************************************************************************)
WellFormed(room) == room.capacity = room.rows * room.cols

OnlyWellFormedRooms ==
    /\ \A room \in Range(rooms) : WellFormed(room)
    /\ \A p \in Procs :
        /\ \A room \in Range(run[p].all_rooms) \cup Range(run[p].rooms) : WellFormed(room)
        /\ \A r \in run[p].inserted :
                \E room \in Range(run[p].rooms) : room.room_id = r.room_id /\ WellFormed(room)

\* a step of Room.save (no generate call moves) answered with the capacity error
MalformedSaveStoresNothing ==
    (/\ run' = run
     /\ flash'.handler = "room_save"
     /\ flash'.message = "Capacity must equal rows x columns") =>
        /\ flash'.category = "error"
        /\ rooms' = rooms
        /\ seating_arrangements' = seating_arrangements

C15_MalformedRoomNeverAllocated ==
    []OnlyWellFormedRooms /\ [][MalformedSaveStoresNothing]_vars

C15_Witness ==
    /\ flash.handler = "room_save"
    /\ flash.message = "Capacity must equal rows x columns"
    /\ \E p \in Procs :
        /\ Succeeded(p)
        /\ \E r \in run[p].inserted : r.room_id = flash.room_id

(***************************************************************************)
(* C16: in the arrangement a Relaxed run has stored, no two orthogonally   *)
(* adjacent candidates sit the same subject, while orthogonal neighbours   *)
(* of one department with different subjects are permitted.                *)
(***************************************************************************)
C16_RelaxedNoSameSubjectNeighbour ==
    \A p \in Procs :
        (Succeeded(p) /\ run[p].conflict_avoidance = "relaxed") =>
            \A a, b \in run[p].inserted :
                Neighbour4(a, b) => a.subject_code # b.subject_code

\* two candidates of one department, next to each other, in different subjects
C16_Witness ==
    \E p \in Procs :
        /\ Succeeded(p)
        /\ run[p].conflict_avoidance = "relaxed"
        /\ \E a, b \in run[p].inserted :
                /\ Neighbour4(a, b)
                /\ a.student_id # b.student_id
                /\ DepartmentOf(a.student_id) = DepartmentOf(b.student_id)

\* the same of the rows the generator of app.py has stored under has_conflict
AppNoSameSubjectNeighbour ==
    \A a, b \in web.inserted : Neighbour4(a, b) => a.subject_code # b.subject_code

AppSameDepartmentNeighbours ==
    \E a, b \in web.inserted :
        /\ Neighbour4(a, b)
        /\ a.student_id # b.student_id
        /\ DepartmentOf(a.student_id) = DepartmentOf(b.student_id)

(***************************************************************************)
(* C17: in balanced assignment, when the staff member at the round-robin   *)
(* position already holds an active assignment of the session, the room is *)
(* passed over, no assignment is created for that (staff, room) pair, and  *)
(* a conflict entry for the pair is in the result returned to the caller.  *)
(***************************************************************************)
\* the pairs the last balanced run passed over got no row
SkippedPairNotAssigned ==
    flash.handler = "assign_invigilators" =>
        \A pair \in flash.skipped :
            ~\E ia \in invigilator_assignments :
                /\ ia.staff_id = pair[1]
                /\ ia.room_id = pair[2]
                /\ SessionOf(ia) = flash.session
                /\ ia.is_active

C17_SkippedPairReported ==
    /\ SkippedPairNotAssigned
    /\ flash.handler = "assign_invigilators" =>
            \A pair \in flash.skipped : pair \in flash.conflicts

\* a balanced run that passed over a room
BalancedRunSkipped ==
    /\ flash.handler = "assign_invigilators"
    /\ flash.assignments_made > 0
    /\ flash.skipped # {}

(***************************************************************************)
(* C18: unassign by assignment id changes only the active flag of that one *)
(* assignment to false; the row stays stored, every other assignment is    *)
(* unchanged, and no step of manual assign, balanced assign or unassign    *)
(* removes a row from invigilator_assignments.                             *)
(***************************************************************************)
\* the table with the active flag of one row cleared (id 0: no such row)
WithFlagCleared(table, id) ==
    {ia \in table : ia.id # id} \cup
    {[ia EXCEPT !.is_active = FALSE] : ia \in {x \in table : x.id = id}}

C18_UnassignOnlyClearsFlag ==
    [][/\ flash'.handler = "unassign" =>
            \E id \in {ia.id : ia \in invigilator_assignments} \cup {0} :
                invigilator_assignments' = WithFlagCleared(invigilator_assignments, id)
       /\ \A ia \in invigilator_assignments :
            \E ib \in invigilator_assignments' :
                /\ ib.id = ia.id
                /\ [ib EXCEPT !.is_active = ia.is_active] = ia]_vars

\* an unassign has cleared one row and left an active one
C18_Witness ==
    /\ flash.handler = "unassign"
    /\ \E a, b \in invigilator_assignments : ~a.is_active /\ b.is_active

(***************************************************************************)
(* C19: a generate request for a session whose exams have no enrolled      *)
(* candidate succeeds trivially: it reports success with zero placed and   *)
(* zero unplaced and creates no seat assignment.                           *)
(***************************************************************************)
\* the call p has returned from was for examinations nobody is enrolled in
NobodyEnrolled(p) ==
    /\ Returned(p)
    /\ get_exams_for_session(run[p].session) # <<>>
    /\ get_students_for_exams(get_exams_for_session(run[p].session)) = <<>>

C19_ZeroCandidatesSucceed ==
    \A p \in Procs :
        NobodyEnrolled(p) =>
            /\ run[p].result.success
            /\ run[p].result.students_allocated = 0
            /\ run[p].result.students_failed = 0
            /\ seating_arrangements = run[p].before

\* what the call answers instead
ZeroCandidatesRefused ==
    \A p \in Procs :
        NobodyEnrolled(p) =>
            /\ ~run[p].result.success
            /\ run[p].result.message = "No students found for the exams"
            /\ seating_arrangements = run[p].before

ZeroCandidatesCallReturned == \E p \in Procs : NobodyEnrolled(p)

\* the generator of app.py answers the same way
AppZeroCandidatesRefused ==
    (/\ web.called
     /\ app_exams(web.session) # <<>>
     /\ app_students(app_exams(web.session)) = <<>>) =>
        /\ ~web.success
        /\ web.message = "No students found for the selected exams"
        /\ web.inserted = {}

AppZeroCandidatesCallReturned ==
    /\ web.called
    /\ app_exams(web.session) # <<>>
    /\ app_students(app_exams(web.session)) = <<>>

(***************************************************************************)
(* C20: runs for distinct sessions are independent.  A step of a generate  *)
(* call changes no seat assignment of another session (seat, active flag,  *)
(* arrangement id), also when both sessions use the same rooms; and under  *)
(* any interleaving of a run for one session with a run for another,       *)
(* neither fails or loses placements: each ends as it would alone, with    *)
(* every candidate of its session seated and its rows the active ones.     *)
(***************************************************************************)
RowsOf(table, session) == {r \in table : SessionOf(r) = session}

\* the rows of a session change only in a step of a call for that session
OtherSessionsUntouched ==
    \A session \in Sessions :
        RowsOf(seating_arrangements', session) # RowsOf(seating_arrangements, session) =>
            \E p \in Procs : run'[p] # run[p] /\ run[p].session = session

\* a call that has returned, while the other request is for another session or absent
RanBesideAnotherSession(p) ==
    /\ Returned(p)
    /\ get_exams_for_session(run[p].session) # <<>>
    /\ \A q \in Procs \ {p} : run[q].pc = "idle" \/ run[q].session # run[p].session

EndsAsAlone ==
    \A p \in Procs :
        RanBesideAnotherSession(p) =>
            /\ run[p].result.success
            /\ run[p].result.students_allocated = Len(run[p].students)
            /\ run[p].result.students_failed = 0
            /\ Cardinality(run[p].inserted) = Len(run[p].students)
            /\ ActiveOf(seating_arrangements, run[p].session) = run[p].inserted
            /\ \A r \in run[p].inserted : r.arrangement_id = run[p].result.arrangement_id

C20_DistinctSessionsIndependent ==
    []EndsAsAlone /\ [][OtherSessionsUntouched]_vars

\* two calls of different sessions have both seated a candidate at the same seat
\* of the same room
C20_Witness ==
    \E p, q \in Procs :
        /\ Succeeded(p) /\ Succeeded(q)
        /\ run[p].session # run[q].session
        /\ \E a \in run[p].inserted, b \in run[q].inserted :
                /\ a.room_id = b.room_id
                /\ a.seat_row = b.seat_row
                /\ a.seat_col = b.seat_col

(***************************************************************************)
(* C21: after a successful generate under the strict policy for a session  *)
(* that had no arrangement before, validate_arrangement for that session   *)
(* returns an empty conflict list.                                         *)
(***************************************************************************)
\* the audit in hand was taken of the table as it stands, for the session of the
\* call p has returned from
AuditedAfter(p) ==
    /\ audit.called
    /\ audit.read = seating_arrangements
    /\ audit.session = run[p].session
    /\ Succeeded(p)

C21_StrictAuditsClean ==
    \A p \in Procs :
        (/\ AuditedAfter(p)
         /\ run[p].conflict_avoidance = "strict"
         /\ ActiveOf(run[p].before, run[p].session) = {}) =>
            audit.conflicts = <<>>

\* a clean audit of a strict run that seated neighbours
C21_Witness ==
    \E p \in Procs :
        /\ AuditedAfter(p)
        /\ run[p].conflict_avoidance = "strict"
        /\ ActiveOf(run[p].before, run[p].session) = {}
        /\ \E a, b \in run[p].inserted : Neighbour8(a, b)
        /\ audit.conflicts = <<>>

\* the audit does find what the other policies leave
LooserPolicyAuditsConflicts ==
    \E p \in Procs :
        /\ AuditedAfter(p)
        /\ run[p].conflict_avoidance # "strict"
        /\ audit.conflicts # <<>>

(***************************************************************************)
(* C22: validate_arrangement is a pure audit: the stored seat assignments, *)
(* the rooms and the students are the same before and after the call, and  *)
(* two calls with no write in between return the same conflict records.    *)
(***************************************************************************)
\* a step that changes the audit in hand is a call of validate_arrangement
AuditWritesNothing ==
    audit' # audit =>
        /\ seating_arrangements' = seating_arrangements
        /\ rooms' = rooms
        /\ students' = students
        /\ student_subjects' = student_subjects
        /\ exams' = exams

\* a call that follows a call for the same session, the table unwritten since
RepeatedAuditAgrees ==
    (audit' # audit /\ audit'.again) => audit'.conflicts = audit.conflicts

LabelOf(row, col) ==
    generate_seat_number(seat_label.room_id, row, col, seat_label.numbering_scheme,
                         seat_label.max_cols)

C23_LabelsDistinctInRoom ==
    seat_label.called =>
        /\ seat_label.seat_number = LabelOf(seat_label.row, seat_label.col)
        /\ \A row \in LabelRows, col \in 1..seat_label.max_cols :
                <<row, col>> # <<seat_label.row, seat_label.col>> =>
                    LabelOf(row, col) # seat_label.seat_number

\* the label of a seat past row 26 in a room of more than one column
C23_Witness ==
    /\ seat_label.called
    /\ seat_label.row > 26
    /\ seat_label.col > 1
    /\ seat_label.numbering_scheme = "alpha_numeric"

(***************************************************************************)
(* C24: for every row >= 1 the alpha_numeric scheme renders the row in     *)
(* base-26 letters A..Z, AA, AB, ..., ZZ, AAA, ... followed by the column  *)
(* number; row 27, col 1 gives AA1.                                        *)
(***************************************************************************)
RECURSIVE Base26Letters(_)
\* A..Z, AA..AZ, BA..ZZ, AAA, ...
Base26Letters(row) ==
    IF row <= 26 THEN <<ord["A"] + row - 1>>
    ELSE Base26Letters((row - 1) \div 26) \o <<ord["A"] + ((row - 1) % 26)>>

C24_AlphaNumericIsBase26 ==
    (seat_label.called /\ seat_label.numbering_scheme = "alpha_numeric") =>
        seat_label.seat_number = Base26Letters(seat_label.row) \o str(seat_label.col)

\* up to row 702 (ZZ) the label is the base-26 letters and the column number
AlphaNumericUpToZZ ==
    (seat_label.called /\ seat_label.numbering_scheme = "alpha_numeric"
        /\ seat_label.row <= 702) =>
        seat_label.seat_number = Base26Letters(seat_label.row) \o str(seat_label.col)

\* row 27, col 1 is labelled AA1
Row27Col1IsAA1 ==
    (seat_label.called /\ seat_label.numbering_scheme = "alpha_numeric"
        /\ seat_label.row = 27 /\ seat_label.col = 1) =>
        seat_label.seat_number = <<65, 65, 49>>

\* past row 702 the first character of the label is not a letter
PastZZFirstIsNoLetter ==
    (seat_label.called /\ seat_label.numbering_scheme = "alpha_numeric"
        /\ seat_label.row > 702) =>
        /\ Len(seat_label.seat_number) = 2 + Len(str(seat_label.col))
        /\ seat_label.seat_number[1] > ord["A"] + 25

(***************************************************************************)
(* C25: first-fit without backtracking.  Each candidate, in visiting       *)
(* order, is placed at the first seat in scan order (rooms in priority     *)
(* order, row-major within a room) that is empty and permitted by the      *)
(* policy on the grid of that moment; a candidate is reported unplaced     *)
(* exactly when no room has such a seat; no earlier placement is moved and *)
(* the policy of the run is never changed for a looser one.                *)
(***************************************************************************)
\* seat rc of the k-th room of the run is empty and permitted for the candidate
\* whose turn it is
OpenSeat(r, k, rc) ==
    LET grid == r.room_grids[r.rooms[k].room_id]
    IN  /\ grid.cells[rc] = None
        /\ ~conflict_strategy(r.conflict_avoidance, r.arranged[r.idx], grid, r.arranged,
                              rc[1], rc[2])

SeatsOfRun(r) ==
    {<<k, rc>> : k \in DOMAIN r.rooms,
                 rc \in (0..(WideCols - 1)) \X (0..(WideCols - 1))} \cap
    {s \in (DOMAIN r.rooms) \X ((0..(WideCols - 1)) \X (0..(WideCols - 1))) :
        s[2] \in DOMAIN r.room_grids[r.rooms[s[1]].room_id].cells}

ScannedBefore(s, t) ==
    \/ s[1] < t[1]
    \/ /\ s[1] = t[1]
       /\ \/ s[2][1] < t[2][1]
          \/ s[2][1] = t[2][1] /\ s[2][2] < t[2][2]

\* the grids of r with the candidate of the turn marked at seat s
Marked(r, s) ==
    [r.room_grids EXCEPT ![r.rooms[s[1]].room_id].cells[s[2]] = r.idx]

\* a step of the allocation loop of call p: one candidate's turn
FirstFitTurn(p) ==
    LET r == run[p]
        t == run'[p]
        open == {s \in SeatsOfRun(r) : OpenSeat(r, s[1], s[2])}
    IN  (r.pc = "allocate" /\ r.idx <= Len(r.arranged) /\ t # r) =>
            /\ t.conflict_avoidance = r.conflict_avoidance
            /\ t.arranged = r.arranged
            /\ t.rooms = r.rooms
            /\ seating_arrangements \subseteq seating_arrangements'
            /\ \A id \in DOMAIN r.room_grids : \A rc \in DOMAIN r.room_grids[id].cells :
                    r.room_grids[id].cells[rc] # None =>
                        t.room_grids[id].cells[rc] = r.room_grids[id].cells[rc]
            /\ (open = {}) <=> (t.failed_students = Append(r.failed_students, r.arranged[r.idx]))
            /\ open = {} =>
                    /\ t.room_grids = r.room_grids
                    /\ seating_arrangements' = seating_arrangements
                    /\ t.idx = r.idx + 1
            /\ open # {} =>
                    \E s \in open :
                        /\ \A o \in open : o = s \/ ScannedBefore(s, o)
                        /\ t.room_grids = Marked(r, s)
                        /\ t.failed_students = r.failed_students
                        /\ LET row == seating_record(r.arranged[r.idx], r.rooms[s[1]].room_id,
                                                     s[2][1] + 1, s[2][2] + 1, r.session)
                           IN  \/ /\ seating_arrangements' = seating_arrangements \cup {row}
                                  /\ t.inserted = r.inserted \cup {row}
                                  /\ t.idx = r.idx + 1
                               \/ /\ unique_violation(row)
                                  /\ seating_arrangements' = seating_arrangements
                                  /\ t.pc = "done" /\ ~t.result.success

C25_FirstFitNoBacktracking == [][\A p \in Procs : FirstFitTurn(p)]_vars

\* a run that has passed over refused seats and has seated candidates in two rooms
C25_Witness ==
    \E p \in Procs :
        /\ run[p].pc = "allocate"
        /\ run[p].conflicts_resolved > 0
        /\ Cardinality(run[p].rooms_used) > 1

\* a run that has seated a candidate and has reported another unplaced, every
\* empty seat of every room refused
UnplacedAfterRefusals ==
    \E p \in Procs :
        /\ run[p].pc = "allocate"
        /\ run[p].conflicts_resolved > 0
        /\ run[p].failed_students # <<>>
        /\ run[p].inserted # {}

(***************************************************************************)
(* C26: with the rooms ordered by descending capacity (room_utilization    *)
(* 'optimal') and candidates among whom no policy conflict arises, a run   *)
(* with n candidates uses the least possible number of rooms, the smallest *)
(* k such that the k largest capacities sum to at least n, and uses a room *)
(* only when every room before it in the order is full.                    *)
(***************************************************************************)
\* the least number of rooms of the list whose capacities sum to at least n
FewestRooms(room_list, n) ==
    LET enough == {S \in SUBSET DOMAIN room_list :
                        Sum([i \in DOMAIN room_list |-> room_list[i].capacity], S) >= n}
    IN  CHOOSE k \in 0..Len(room_list) :
            /\ \E S \in enough : Cardinality(S) = k
            /\ \A S \in enough : Cardinality(S) >= k

\* the call p has returned from met no refusal of the policy
RanWithoutConflict(p) == Succeeded(p) /\ run[p].result.conflicts_resolved = 0

C26_OptimalUsesFewestRooms ==
    \A p \in Procs :
        RanWithoutConflict(p) =>
            LET room_list == run[p].rooms
                used == {r.room_id : r \in run[p].inserted}
            IN  /\ Cardinality(run[p].inserted) = Len(run[p].students)
                /\ Cardinality(used) = FewestRooms(room_list, Len(run[p].students))
                /\ run[p].result.rooms_used = Cardinality(used)
                /\ \A i, j \in DOMAIN room_list :
                        (i < j /\ room_list[j].room_id \in used) =>
                            Cardinality(PlacedIn(run[p].inserted, room_list[i].room_id))
                                = room_list[i].capacity

\* a run without conflict that filled the largest room and went on to the next
C26_Witness ==
    \E p \in Procs :
        /\ RanWithoutConflict(p)
        /\ Cardinality({r.room_id : r \in run[p].inserted}) = 2
        /\ Len(run[p].rooms) = 3

\* where the policy refuses seats, a run may use more rooms than the fewest
ConflictsSpreadOverRooms ==
    \E p \in Procs :
        /\ Succeeded(p)
        /\ run[p].result.conflicts_resolved > 0
        /\ run[p].result.rooms_used > FewestRooms(run[p].rooms, Len(run[p].students))

\* app.py's generator, which takes the rooms in the same order: an answer of
\* success for candidates of pairwise different subjects used the fewest rooms
AppUsesFewestRooms ==
    LET cands == app_students(app_exams(web.session))
        used == {r.room_id : r \in web.inserted}
    IN  (/\ web.called /\ web.success
         /\ \A i, j \in DOMAIN cands : i # j => cands[i].subject_code # cands[j].subject_code) =>
            /\ Cardinality(web.inserted) = Len(cands)
            /\ Cardinality(used) = FewestRooms(rooms, Len(cands))

AppFilledTwoRooms ==
    /\ web.called /\ web.success
    /\ Cardinality({r.room_id : r \in web.inserted}) = 2
    /\ Len(rooms) = 3

(***************************************************************************)
(* C27: one balanced auto-assignment call over R rooms with seated         *)
(* students and S available staff, none assigned in the session before,    *)
(* creates exactly min(R, S) assignments: the i-th room receives the i-th  *)
(* available member of staff, nobody receives two rooms, and with R > S    *)
(* the remaining R - S rooms receive no invigilator.                       *)
(***************************************************************************)
NobodyAssigned(session) ==
    ~\E ia \in invigilator_assignments : SessionOf(ia) = session /\ ia.is_active

\* the active staff in the order of their names
StaffInOrder ==
    SelectSeq2(StaffByName, {i.staff_id : i \in {j \in invigilators : j.is_active}})

\* the stored rooms in which a candidate of the session is seated
SeatedRooms(session) ==
    {room.room_id : room \in {r \in Range(rooms) :
        \E sa \in ActiveOf(seating_arrangements, session) : sa.room_id = r.room_id}}

Min(a, b) == IF a <= b THEN a ELSE b

\* a balanced call for the session when nobody is assigned in it
BalancedPairsInOrder(session) ==
    (/\ NobodyAssigned(session)
     /\ flash'.handler = "assign_invigilators"
     /\ AssignInvigilators(session, "balanced")) =>
        LET new == invigilator_assignments' \ invigilator_assignments
            k == Min(Cardinality(SeatedRooms(session)), Len(StaffInOrder))
        IN  /\ invigilator_assignments \subseteq invigilator_assignments'
            /\ Cardinality(new) = k
            /\ flash'.assignments_made = k
            /\ \A ia \in new : ia.is_active /\ SessionOf(ia) = session
            /\ \A a, b \in new : (a.staff_id = b.staff_id \/ a.room_id = b.room_id) => a = b
            /\ \E room_list \in rooms_with_students(session) :
                    /\ Len(room_list) = Cardinality(SeatedRooms(session))
                    /\ {<<ia.room_id, ia.staff_id>> : ia \in new} =
                            {<<room_list[i].room_id, StaffInOrder[i]>> : i \in 1..k}

C27_BalancedAssignsMinOfRoomsAndStaff ==
    [][\A session \in InvSessions : BalancedPairsInOrder(session)]_vars

\* a balanced call has assigned the one member of staff left to one of the two
\* rooms of the session and has passed the other room over
C27_Witness ==
    /\ flash.handler = "assign_invigilators"
    /\ flash.assignments_made = 1
    /\ flash.skipped # {}
    /\ Cardinality(invigilators) = 1
    /\ Cardinality(SeatedRooms(flash.session)) = 2
    /\ Cardinality({ia \in invigilator_assignments :
                        SessionOf(ia) = flash.session /\ ia.is_active}) = 1

\* a balanced call has given two rooms their invigilators, the first by name first
BalancedFilledTwoRooms ==
    /\ flash.handler = "assign_invigilators"
    /\ flash.assignments_made = 2
    /\ flash.skipped = {}

(***************************************************************************)
(* C28: unassign releases the member of staff.  After the only active      *)
(* assignment of X at (D, T) is unassigned, a manual assignment of X to    *)
(* any room at (D, T) succeeds, and X is again in the list of available    *)
(* staff the balanced auto-assignment reads for (D, T).                    *)
(***************************************************************************)
\* the staff member was assigned in the session and holds no active assignment
\* in it any more
Released(staff_id, session) ==
    /\ \E ia \in invigilator_assignments :
            ia.staff_id = staff_id /\ SessionOf(ia) = session /\ ~ia.is_active
    /\ ~\E ia \in invigilator_assignments :
            ia.staff_id = staff_id /\ SessionOf(ia) = session /\ ia.is_active

ReleasedIsAvailable ==
    \A staff_id \in StaffIds, session \in InvSessions :
        Released(staff_id, session) =>
            \E k \in DOMAIN available_invigilators(session) :
                available_invigilators(session)[k].staff_id = staff_id

\* a manual assignment of a released member of staff, every field filled in
ReleasedCanBeAssigned ==
    \A staff_id \in StaffIds, session \in InvSessions :
        (/\ flash'.handler = "manual_assign"
         /\ flash'.staff_id = staff_id
         /\ flash'.session = session
         /\ Released(staff_id, session)) =>
            \A room_id \in RoomIds, subject_code \in Subjects :
                ManualAssign(staff_id, room_id, session, subject_code) =>
                    /\ flash'.category = "success"
                    /\ \E ia \in invigilator_assignments' \ invigilator_assignments :
                            /\ ia.staff_id = staff_id /\ ia.room_id = room_id
                            /\ SessionOf(ia) = session /\ ia.is_active
                    /\ invigilator_assignments \subseteq invigilator_assignments'

\* a balanced call made when nobody is assigned in the session pairs a released
\* member of staff like any other: by the place of the name among the available
ReleasedIsPairedAgain ==
    \A session \in InvSessions, staff_id \in StaffIds :
        (/\ Released(staff_id, session)
         /\ NobodyAssigned(session)
         /\ flash'.handler = "assign_invigilators"
         /\ AssignInvigilators(session, "balanced")
         /\ \E k \in 1..Min(Cardinality(SeatedRooms(session)), Len(StaffInOrder)) :
                StaffInOrder[k] = staff_id) =>
            \E ia \in invigilator_assignments' \ invigilator_assignments :
                ia.staff_id = staff_id /\ SessionOf(ia) = session /\ ia.is_active

C28_UnassignReleasesStaff ==
    []ReleasedIsAvailable /\ [][ReleasedCanBeAssigned /\ ReleasedIsPairedAgain]_vars

\* a member of staff unassigned from a session has been assigned in it again by
\* hand, to the other room
C28_Witness ==
    /\ flash.handler = "manual_assign"
    /\ flash.category = "success"
    /\ \E a, b \in invigilator_assignments :
            /\ a.staff_id = flash.staff_id /\ b.staff_id = flash.staff_id
            /\ SessionOf(a) = flash.session /\ SessionOf(b) = flash.session
            /\ ~a.is_active /\ b.is_active
            /\ a.room_id # b.room_id
            /\ b.room_id = flash.room_id


\* a balanced call has assigned a member of staff again who had been unassigned
\* from the session
ReleasedPairedByBalancedCall ==
    /\ flash.handler = "assign_invigilators"
    /\ flash.assignments_made > 0
    /\ \E a, b \in invigilator_assignments :
            /\ a.staff_id = b.staff_id
            /\ SessionOf(a) = flash.session /\ SessionOf(b) = flash.session
            /\ ~a.is_active /\ b.is_active
            /\ b.id > a.id

(***************************************************************************)
(* C29: Strict is the strictest policy: for every candidate, grid and      *)
(* empty seat, if the Strict check permits the placement, the Moderate     *)
(* check and the Relaxed check permit it too.                              *)
(***************************************************************************)
C29_StrictPermitsImpliesOthers ==
    (policy_check.called /\ ~policy_check.strict) =>
        (~policy_check.moderate /\ ~policy_check.relaxed)

\* Strict permits a seat with two orthogonal neighbours and a diagonal one
C29_Witness ==
    /\ policy_check.called
    /\ ~policy_check.strict
    /\ Cardinality({rc \in DOMAIN policy_check.cells : policy_check.cells[rc] # None}) = 3

\* the other two permit seats that Strict refuses
StrictRefusesWhatOthersPermit ==
    /\ policy_check.called
    /\ policy_check.strict
    /\ ~policy_check.moderate
    /\ ~policy_check.relaxed

\* Moderate refuses a seat that Relaxed permits: the two are not ordered this way
ModerateAndRelaxedNotOrdered ==
    /\ policy_check.called
    /\ policy_check.moderate
    /\ ~policy_check.relaxed

(***************************************************************************)
(* C30: with preserve_existing = true, generate leaves the student, room,  *)
(* seat and active flag of every seat assignment of the session that was   *)
(* active before the call unchanged, and places new candidates only in     *)
(* rooms that had no active assignment of the session when the call        *)
(* started.                                                                *)
(***************************************************************************)
\* a stored row without its arrangement id
Seating(r) ==
    [student_id |-> r.student_id, subject_code |-> r.subject_code, room_id |-> r.room_id,
     seat_row |-> r.seat_row, seat_col |-> r.seat_col, exam_date |-> r.exam_date,
     session_time |-> r.session_time, is_active |-> r.is_active]

\* the rooms that held an active row of the session when call p started
OccupiedBefore(p) == {r.room_id : r \in ActiveOf(run[p].before, run[p].session)}

C30_PreserveKeepsAndAvoids ==
    \A p \in Procs :
        (run[p].pc # "idle" /\ run[p].preserve_existing) =>
            /\ \A r \in ActiveOf(run[p].before, run[p].session) :
                    Cardinality({q \in seating_arrangements :
                        q.room_id = r.room_id /\ q.seat_row = r.seat_row
                        /\ q.seat_col = r.seat_col /\ SessionOf(q) = SessionOf(r)}) = 1
                    /\ \E q \in seating_arrangements : Seating(q) = Seating(r)
            /\ {Seating(q) : q \in {x \in ActiveOf(seating_arrangements, run[p].session) :
                                        x.room_id \in OccupiedBefore(p)}}
                    = {Seating(r) : r \in ActiveOf(run[p].before, run[p].session)}
            /\ \A r \in run[p].inserted : r.room_id \notin OccupiedBefore(p)
            /\ {Seating(q) : q \in ActiveOf(seating_arrangements, run[p].session)} =
                    {Seating(r) : r \in ActiveOf(run[p].before, run[p].session)}
                        \cup {Seating(r) : r \in run[p].inserted}

\* a preserving call has returned success: the session's earlier seats stand in
\* their room and the call has seated its candidates in another
C30_Witness ==
    \E p \in Procs :
        /\ Succeeded(p)
        /\ run[p].preserve_existing
        /\ OccupiedBefore(p) # {}
        /\ run[p].inserted # {}
        /\ \A r \in ActiveOf(run[p].before, run[p].session) :
                \E q \in seating_arrangements :
                    Seating(q) = Seating(r) /\ q.arrangement_id = run[p].result.arrangement_id

====
